---- MODULE Spec2Model ----
(***************************************************************************)
(* Entity resolution of paperless-graphrag                                 *)
(* (src/app/services/entity_resolution.py): candidate generation over the  *)
(* person entities of a snapshot, the merge map, the rewrite of the entity *)
(* and relationship tables, and resolve_entities with its files.           *)
(*                                                                         *)
(* Names, tokens and descriptions are character strings; a character is a  *)
(* string of length 1.  Entity ids are the strings "e1", "e2", ... (ids of *)
(* GraphRAG rows are strings, so str(id) leaves them as they are).         *)
(***************************************************************************)
EXTENDS Integers, Sequences, FiniteSets, TLC

(***************************************************************************)
(* Bounds of the model.                                                    *)
(***************************************************************************)
MaxEntities == 3
MaxRelEntities == 3
MaxRels == 2
MaxWeight == 2
MaxRuns == 2
MaxCalls == 3
MaxExtra == 1
MaxTasks == 3
MaxRejected == 2
MaxLen == 3

(***************************************************************************)
(* Characters and generic sequence helpers.                                *)
(***************************************************************************)
Char(s, i) == SubSeq(s, i, i)

LowerLetters == "abcdefghijklmnopqrstuvwxyz"
UpperLetters == "ABCDEFGHIJKLMNOPQRSTUVWXYZ"
Digits == "0123456789"
\* The characters of the model in code-point order (what sorted() compares).
Alphabet == " &'(),-.0123456789:;ABCDEFGHIJKLMNOPQRSTUVWXYZ_abcdefghijklmnopqrstuvwxyz"

CharsOf(s) == {Char(s, i) : i \in 1..Len(s)}
LowerSet == CharsOf(LowerLetters)
WordChars == LowerSet \cup CharsOf(UpperLetters) \cup CharsOf(Digits) \cup {"_"}

\* the place of each character in code-point order
OrdTable ==
    [c \in CharsOf(Alphabet) |-> CHOOSE i \in 1..Len(Alphabet) : Char(Alphabet, i) = c]
Ord(c) == OrdTable[c]

\* str.upper() of each lower-case letter
UpperTable ==
    [c \in LowerSet |->
        Char(UpperLetters, CHOOSE i \in 1..Len(LowerLetters) : Char(LowerLetters, i) = c)]

IsSpace(c) == c = " "
\* \w of the re module: letters, digits and the underscore
IsWordChar(c) == c \in WordChars

\* str.upper() on one character
UpperChar(c) == IF c \in LowerSet THEN UpperTable[c] ELSE c

RECURSIVE MapUpper(_)
MapUpper(s) == IF Len(s) = 0 THEN "" ELSE UpperChar(Head(s)) \o MapUpper(Tail(s))

\* str.strip(): leading and trailing whitespace removed
RECURSIVE LStrip(_)
LStrip(s) == IF Len(s) > 0 /\ IsSpace(Head(s)) THEN LStrip(Tail(s)) ELSE s
RECURSIVE RStrip(_)
RStrip(s) ==
    IF Len(s) > 0 /\ IsSpace(Char(s, Len(s)))
    THEN RStrip(SubSeq(s, 1, Len(s) - 1)) ELSE s
Strip(s) == RStrip(LStrip(s))

\* the character class [.,;:\-\'\"()&] of _normalize_name
PunctChars == {".", ",", ";", ":", "-", "'", "\"", "(", ")", "&"}

\* re.sub(r'[.,;:\-\'\"()&]', ' ', s)
RECURSIVE SubPunct(_)
SubPunct(s) ==
    IF Len(s) = 0 THEN ""
    ELSE (IF Head(s) \in PunctChars THEN " " ELSE Head(s)) \o SubPunct(Tail(s))

\* re.sub(r'\s+', ' ', s): every run of whitespace becomes one space
RECURSIVE SubSpaces(_)
SubSpaces(s) ==
    IF Len(s) = 0 THEN ""
    ELSE IF IsSpace(Head(s))
         THEN " " \o SubSpaces(LStrip(s))
         ELSE Head(s) \o SubSpaces(Tail(s))

\* str.split(): the maximal runs of non-whitespace, in order
RECURSIVE SplitFrom(_, _)
SplitFrom(s, cur) ==
    IF Len(s) = 0 THEN (IF cur = "" THEN <<>> ELSE <<cur>>)
    ELSE IF IsSpace(Head(s))
         THEN (IF cur = "" THEN <<>> ELSE <<cur>>) \o SplitFrom(Tail(s), "")
         ELSE SplitFrom(Tail(s), cur \o Head(s))
Split(s) == SplitFrom(s, "")

\* " ".join(tokens)
RECURSIVE Join(_)
Join(toks) ==
    IF Len(toks) = 0 THEN ""
    ELSE IF Len(toks) = 1 THEN toks[1]
    ELSE toks[1] \o " " \o Join(Tail(toks))

Range(f) == {f[i] : i \in DOMAIN f}

\* a in b of two strings: a is a contiguous part of b
Contains(b, a) ==
    \E i \in 1..(Len(b) - Len(a) + 1) : SubSeq(b, i, i + Len(a) - 1) = a

Min2(x, y) == IF x <= y THEN x ELSE y
Min3(x, y, z) == Min2(x, Min2(y, z))

(***************************************************************************)
(* Helpers of entity_resolution.py.                                        *)
(***************************************************************************)
\* KNOWN_ALIASES: alternate last name -> canonical last name
KNOWN_ALIASES == [k \in {"MCADAM"} |-> "MCCARN"]

_normalize_name(name) == Strip(SubSpaces(SubPunct(Strip(MapUpper(name)))))

_tokenize_name(name) == Range(Split(_normalize_name(name)))

\* one row of the dynamic program: curr for the character ca of a
RECURSIVE LevRow(_, _, _, _)
LevRow(prev, ca, b, curr) ==
    IF Len(curr) = Len(b) + 1 THEN curr
    ELSE LET j == Len(curr)
             cb == Char(b, j)
         IN  LevRow(prev, ca, b,
                    Append(curr, Min3(prev[j + 1] + 1,
                                      curr[j] + 1,
                                      prev[j] + (IF ca # cb THEN 1 ELSE 0))))

RECURSIVE LevRows(_, _, _, _)
LevRows(a, b, i, prev) ==
    IF i > Len(a) THEN prev
    ELSE LevRows(a, b, i + 1, LevRow(prev, Char(a, i), b, <<i>>))

\* the distance with insertions and deletions only
RECURSIVE IndelDistance(_, _)
IndelDistance(a, b) ==
    IF Len(a) = 0 THEN Len(b)
    ELSE IF Len(b) = 0 THEN Len(a)
    ELSE IF Head(a) = Head(b) THEN IndelDistance(Tail(a), Tail(b))
    ELSE 1 + Min2(IndelDistance(Tail(a), b), IndelDistance(a, Tail(b)))

RECURSIVE _levenshtein(_, _)
_levenshtein(a, b) ==
    IF Len(a) < Len(b) THEN _levenshtein(b, a)
    ELSE IF Len(b) = 0 THEN Len(a)
    ELSE LevRows(a, b, 1, [j \in 1..(Len(b) + 1) |-> j - 1])[Len(b) + 1]

ROLE_INDICATORS ==
    {"EMPLOYEE", "EMPLOYER", "OFFICER", "MEMBER", "REPRESENTATIVE",
     "APPLICANT", "BENEFICIARY", "CLAIMANT", "VETERAN", "SPOUSE",
     "GUARDIAN", "CUSTODIAN", "ATTORNEY", "AGENT", "PROVIDER",
     "SUPERVISOR", "DIRECTOR", "MANAGER", "TENANT", "OWNER",
     "HOLDER", "SIGNER", "PATIENT", "CLIENT", "CUSTOMER",
     "INSURED", "SUBSCRIBER", "PURCHASER", "SELLER", "BUYER",
     "OCCUPANT", "RESIDENT", "PERSONNEL", "WORKER", "STAFF",
     "CAREGIVER", "DEPENDENT", "CHILD", "PARENT", "FAMILY",
     "HEIRS", "SUCCESSORS", "ASSIGNS", "PARTIES", "PERSON",
     "INDIVIDUALS", "TAXPAYER", "PAYER", "PAYEE", "DEBTOR"}

\* the length above which a single-token name counts as a role
RoleTokenLen == 12

_is_proper_noun(name) ==
    LET tokens == _tokenize_name(name)
    IN  IF tokens = {} THEN FALSE
        ELSE IF tokens \cap ROLE_INDICATORS # {} THEN FALSE
        ELSE IF Cardinality(tokens) = 1
                /\ Len(CHOOSE t \in tokens : TRUE) > RoleTokenLen THEN FALSE
        ELSE TRUE

\* re.search(r'&|\bAND\b', name.upper())
_is_joint_entity(name) ==
    LET u == MapUpper(name)
    IN  \/ \E i \in 1..Len(u) : Char(u, i) = "&"
        \/ \E i \in 1..(Len(u) - 2) :
              /\ SubSeq(u, i, i + 2) = "AND"
              /\ (i = 1 \/ ~IsWordChar(Char(u, i - 1)))
              /\ (i + 2 = Len(u) \/ ~IsWordChar(Char(u, i + 3)))

\* no two names are held to conflict
NoInitialConflicts(name_a, name_b) == FALSE

_middle_initial_conflicts(name_a, name_b) ==
    LET tokens_a == Split(_normalize_name(name_a))
        tokens_b == Split(_normalize_name(name_b))
    IN  IF Len(tokens_a) # Len(tokens_b) \/ Len(tokens_a) < 3 THEN FALSE
        ELSE \E p \in 1..Len(tokens_a) :
                /\ Len(tokens_a[p]) = 1
                /\ Len(tokens_b[p]) = 1
                /\ tokens_a[p] # tokens_b[p]

\* the alias table is not consulted
WithoutAliases(name) == _normalize_name(name)

_apply_known_aliases(name) ==
    LET tokens == Split(_normalize_name(name))
    IN  IF Len(tokens) = 0 THEN name
        ELSE LET last == tokens[Len(tokens)]
             IN  IF last \in DOMAIN KNOWN_ALIASES
                 THEN Join([tokens EXCEPT ![Len(tokens)] = KNOWN_ALIASES[last]])
                 ELSE _normalize_name(name)

(***************************************************************************)
(* _find_merge_candidates: the records of the person rows.                 *)
(***************************************************************************)
\* one element of `records` (lines 150-164)
Record(row) ==
    LET name == row.title
        norm == _normalize_name(name)
        alias_norm == _apply_known_aliases(name)
    IN  [id |-> row.id,
         name |-> name,
         norm |-> norm,
         tokens |-> Range(Split(norm)),
         alias_norm |-> alias_norm,
         alias_tokens |-> Range(Split(alias_norm)),
         is_proper |-> _is_proper_noun(name),
         is_joint |-> _is_joint_entity(name)]

\* rows of every type are taken
AnyRow(row) == TRUE

IsPersonRow(row) == MapUpper(row.type) = "PERSON"

\* persons = entities_df[person_mask]; records in row order
RECURSIVE BuildRecords(_)
BuildRecords(rows) ==
    IF Len(rows) = 0 THEN <<>>
    ELSE (IF IsPersonRow(Head(rows)) THEN <<Record(Head(rows))>> ELSE <<>>)
         \o BuildRecords(Tail(rows))

\* last_name_people[ln]: the token sets filed under last name ln
LastNamePeople(records, ln) ==
    {records[i].tokens : i \in {k \in DOMAIN records :
        LET parts == Split(records[k].norm)
        IN  Len(parts) >= 2 /\ parts[Len(parts)] = ln}}
    \cup
    {records[i].alias_tokens : i \in {k \in DOMAIN records :
        LET alias_parts == Split(records[k].alias_norm)
        IN  Len(alias_parts) >= 2 /\ alias_parts[Len(alias_parts)] = ln}}

AllTokens(records) ==
    UNION {records[i].tokens \cup records[i].alias_tokens : i \in DOMAIN records}

ambiguous_lastnames(records) ==
    {ln \in AllTokens(records) : Cardinality(LastNamePeople(records, ln)) > 1}

(***************************************************************************)
(* _add_merge and _pick_keep.  acc carries merge_pairs, seen_pairs and the *)
(* reasons logged for the pairs that were added.                           *)
(***************************************************************************)
EmptyAcc == [merge_pairs |-> <<>>, seen_pairs |-> {}, reasons |-> <<>>]

\* _add_merge with the test of the reversed pair left out
AddMergeSameOrientationOnly(acc, keep_rec, merge_rec, reason) ==
    LET pair == <<keep_rec.id, merge_rec.id>>
    IN  IF pair \notin acc.seen_pairs
        THEN [merge_pairs |-> Append(acc.merge_pairs, pair),
              seen_pairs |-> acc.seen_pairs \cup {pair},
              reasons |-> Append(acc.reasons, reason)]
        ELSE acc

_add_merge(acc, keep_rec, merge_rec, reason) ==
    LET pair == <<keep_rec.id, merge_rec.id>>
        rev == <<merge_rec.id, keep_rec.id>>
    IN  IF pair \notin acc.seen_pairs /\ rev \notin acc.seen_pairs
        THEN [merge_pairs |-> Append(acc.merge_pairs, pair),
              seen_pairs |-> acc.seen_pairs \cup {pair},
              reasons |-> Append(acc.reasons, reason)]
        ELSE acc

\* <<keep, merge>>
_pick_keep(a, b) ==
    IF a.is_joint /\ ~b.is_joint THEN <<b, a>>
    ELSE IF b.is_joint /\ ~a.is_joint THEN <<a, b>>
    ELSE IF Cardinality(a.tokens) # Cardinality(b.tokens)
         THEN (IF Cardinality(a.tokens) >= Cardinality(b.tokens)
               THEN <<a, b>> ELSE <<b, a>>)
    ELSE IF Len(a.name) >= Len(b.name) THEN <<a, b>> ELSE <<b, a>>

(***************************************************************************)
(* Grouping helpers: dict insertion order and max() (the first maximum).   *)
(***************************************************************************)
\* the distinct values of r[field], in order of first occurrence
RECURSIVE KeysInOrder(_, _, _)
KeysInOrder(records, field, done) ==
    IF Len(records) = 0 THEN <<>>
    ELSE LET key == Head(records)[field]
         IN  IF key \in done THEN KeysInOrder(Tail(records), field, done)
             ELSE <<key>> \o KeysInOrder(Tail(records), field, done \cup {key})

GroupOf(records, field, key) ==
    LET InGroup(r) == r[field] = key IN SelectSeq(records, InGroup)

NonJoint(group) == LET NotJoint(r) == ~r.is_joint IN SelectSeq(group, NotJoint)

\* tuple comparison of Python, for keys of equal length
TupleLess(x, y) ==
    \E p \in DOMAIN x : x[p] < y[p] /\ \A q \in 1..(p - 1) : x[q] = y[q]

\* max(group, key=...): the first element whose key no other exceeds
MaxFirst(group, keys) ==
    group[CHOOSE i \in DOMAIN group :
            /\ \A j \in DOMAIN group : ~TupleLess(keys[i], keys[j])
            /\ \A j \in 1..(i - 1) : TupleLess(keys[j], keys[i])]

NameLenKey(r) == <<Len(r.name)>>
TokensNameKey(r) == <<Cardinality(r.tokens), Len(r.name)>>

\* for r in group: if r["id"] != keep["id"]: _add_merge(keep, r, reason)
RECURSIVE AddGroup(_, _, _, _)
AddGroup(acc, keep, group, reason) ==
    IF Len(group) = 0 THEN acc
    ELSE AddGroup(IF Head(group).id # keep.id
                  THEN _add_merge(acc, keep, Head(group), reason) ELSE acc,
                  keep, Tail(group), reason)

(***************************************************************************)
(* Strategies 1, 2 and 2b: groups by norm, tokens and alias_tokens.        *)
(***************************************************************************)
RECURSIVE Strategy1Groups(_, _, _)
Strategy1Groups(acc, records, keys) ==
    IF Len(keys) = 0 THEN acc
    ELSE LET group == GroupOf(records, "norm", Head(keys))
             keep == MaxFirst(group, [i \in DOMAIN group |-> NameLenKey(group[i])])
         IN  Strategy1Groups(IF Len(group) < 2 THEN acc
                             ELSE AddGroup(acc, keep, group, "exact-norm"),
                             records, Tail(keys))

Strategy1(acc, records) ==
    Strategy1Groups(acc, records, KeysInOrder(records, "norm", {}))

\* the body shared by strategies 2 and 2b (lines 230-241 and 249-259)
RECURSIVE TokenGroups(_, _, _, _, _)
TokenGroups(acc, records, field, keys, reason) ==
    IF Len(keys) = 0 THEN acc
    ELSE LET group == GroupOf(records, field, Head(keys))
             recs == NonJoint(group)
             keep == MaxFirst(recs, [i \in DOMAIN recs |-> TokensNameKey(recs[i])])
         IN  TokenGroups(IF Len(group) < 2 \/ Len(recs) < 2 THEN acc
                         ELSE AddGroup(acc, keep, recs, reason),
                         records, field, Tail(keys), reason)

Strategy2(acc, records) ==
    TokenGroups(acc, records, "tokens",
                KeysInOrder(records, "tokens", {}), "token-reorder")

Strategy2b(acc, records) ==
    TokenGroups(acc, records, "alias_tokens",
                KeysInOrder(records, "alias_tokens", {}), "alias-match")

(***************************************************************************)
(* Strategies 3 and 3b: subset match over the inverted token index.        *)
(***************************************************************************)
\* the intersection of token_index[t] over the tokens of r
SubsetCandidates(records, i) ==
    {j \in DOMAIN records : records[i].tokens \subseteq records[j].tokens}

AliasSubsetCandidates(records, i) ==
    {j \in DOMAIN records :
        records[i].alias_tokens \subseteq records[j].alias_tokens}

StrictSubset(A, B) == A \subseteq B /\ A # B

\* lines 292-298: the guard on a single-token r
SingleTokenRejected(r, ambiguous) ==
    /\ Cardinality(r.tokens) = 1
    /\ \/ (CHOOSE t \in r.tokens : TRUE) \in ambiguous
       \/ ~r.is_proper

\* line 269-272: r is a subset source
SubsetSource(r) == ~(Cardinality(r.tokens) < 2) /\ ~r.is_joint

\* lines 283-298: the pair (r, other) is accepted
SubsetAccepts(r, other, ambiguous) ==
    /\ ~other.is_joint
    /\ StrictSubset(r.tokens, other.tokens)
    /\ ~SingleTokenRejected(r, ambiguous)

\* for j in candidates, j ascending
RECURSIVE Strategy3Inner(_, _, _, _, _)
Strategy3Inner(acc, records, ambiguous, i, j) ==
    IF j > Len(records) THEN acc
    ELSE LET r == records[i]
             other == records[j]
             km == _pick_keep(other, r)
         IN  Strategy3Inner(
                 IF j \in SubsetCandidates(records, i) /\ j # i
                    /\ SubsetAccepts(r, other, ambiguous)
                 THEN _add_merge(acc, km[1], km[2], "subset") ELSE acc,
                 records, ambiguous, i, j + 1)

RECURSIVE Strategy3Outer(_, _, _, _)
Strategy3Outer(acc, records, ambiguous, i) ==
    IF i > Len(records) THEN acc
    ELSE Strategy3Outer(IF SubsetSource(records[i])
                        THEN Strategy3Inner(acc, records, ambiguous, i, 1)
                        ELSE acc,
                        records, ambiguous, i + 1)

\* strategy 3 with the guards on single-token names left out
RECURSIVE UnguardedSubsetInner(_, _, _, _)
UnguardedSubsetInner(acc, records, i, j) ==
    IF j > Len(records) THEN acc
    ELSE LET r == records[i]
             other == records[j]
             km == _pick_keep(other, r)
         IN  UnguardedSubsetInner(
                 IF j \in SubsetCandidates(records, i) /\ j # i
                    /\ ~other.is_joint /\ StrictSubset(r.tokens, other.tokens)
                 THEN _add_merge(acc, km[1], km[2], "subset") ELSE acc,
                 records, i, j + 1)

RECURSIVE UnguardedSubsetOuter(_, _, _)
UnguardedSubsetOuter(acc, records, i) ==
    IF i > Len(records) THEN acc
    ELSE UnguardedSubsetOuter(IF ~records[i].is_joint
                              THEN UnguardedSubsetInner(acc, records, i, 1)
                              ELSE acc,
                              records, i + 1)

UnguardedSubset(acc, records) == UnguardedSubsetOuter(acc, records, 1)

Strategy3(acc, records) ==
    Strategy3Outer(acc, records, ambiguous_lastnames(records), 1)

\* line 310
AliasSubsetSource(r) == ~(Cardinality(r.alias_tokens) < 2 \/ r.is_joint)

\* lines 320-327
AliasSubsetAccepts(r, other) ==
    /\ ~other.is_joint
    /\ StrictSubset(r.alias_tokens, other.alias_tokens)
    /\ ~(Cardinality(r.alias_tokens) = 1)

RECURSIVE Strategy3bInner(_, _, _, _)
Strategy3bInner(acc, records, i, j) ==
    IF j > Len(records) THEN acc
    ELSE LET r == records[i]
             other == records[j]
             km == _pick_keep(other, r)
         IN  Strategy3bInner(
                 IF j \in AliasSubsetCandidates(records, i) /\ j # i
                    /\ AliasSubsetAccepts(r, other)
                 THEN _add_merge(acc, km[1], km[2], "alias-subset") ELSE acc,
                 records, i, j + 1)

RECURSIVE Strategy3bOuter(_, _, _)
Strategy3bOuter(acc, records, i) ==
    IF i > Len(records) THEN acc
    ELSE Strategy3bOuter(IF AliasSubsetSource(records[i])
                         THEN Strategy3bInner(acc, records, i, 1)
                         ELSE acc,
                         records, i + 1)

Strategy3b(acc, records) == Strategy3bOuter(acc, records, 1)

(***************************************************************************)
(* Strategy 4: OCR fuzzy match inside the blocks of block_index.           *)
(***************************************************************************)
\* the fuzzy thresholds of lines 366, 381 and 388
MaxEditDistance == 2
ShortTokenLen == 3
LongTokenLen == 8

\* a < b of two strings (code-point order)
RECURSIVE StrLess(_, _)
StrLess(a, b) ==
    IF Len(b) = 0 THEN FALSE
    ELSE IF Len(a) = 0 THEN TRUE
    ELSE IF Head(a) # Head(b) THEN Ord(Head(a)) < Ord(Head(b))
    ELSE StrLess(Tail(a), Tail(b))

\* sorted(tokens)
RECURSIVE SortTokens(_)
SortTokens(S) ==
    IF S = {} THEN <<>>
    ELSE LET m == CHOOSE x \in S : \A y \in S \ {x} : StrLess(x, y)
         IN  <<m>> \o SortTokens(S \ {m})

\* tlist[:k] + tlist[k+1:]
WithoutKth(tlist, k) == SubSeq(tlist, 1, k - 1) \o SubSeq(tlist, k + 1, Len(tlist))

\* lines 335-339: r is filed in block_index
Blocked(r) == ~(Cardinality(r.tokens) < 2) /\ r.is_proper

\* the keys under which r is filed, in the order of k
BlockKeysOf(r) ==
    LET tlist == SortTokens(r.tokens)
    IN  IF Blocked(r) THEN [k \in 1..Len(tlist) |-> WithoutKth(tlist, k)]
        ELSE <<>>

RECURSIVE Distinct(_, _)
Distinct(seq, done) ==
    IF Len(seq) = 0 THEN <<>>
    ELSE IF Head(seq) \in done THEN Distinct(Tail(seq), done)
    ELSE <<Head(seq)>> \o Distinct(Tail(seq), done \cup {Head(seq)})

\* the keys of all records, in the order in which block_index meets them
RECURSIVE AllBlockKeys(_, _)
AllBlockKeys(keys_of, i) ==
    IF i > Len(keys_of) THEN <<>>
    ELSE keys_of[i] \o AllBlockKeys(keys_of, i + 1)

\* block_index[key]
BlockIndices(keys_of, key) ==
    {i \in DOMAIN keys_of : key \in Range(keys_of[i])}

\* sorted(indices)
RECURSIVE SortInts(_)
SortInts(S) ==
    IF S = {} THEN <<>>
    ELSE LET m == CHOOSE x \in S : \A y \in S : x <= y
         IN  <<m>> \o SortInts(S \ {m})

\* lines 352-390: the pair (a, b) of one block is accepted
\* the test of two substitutions in long tokens of equal length left out
FuzzyAcceptsLongTokens(a, b) ==
    LET shared == a.tokens \cap b.tokens
        diff_a == a.tokens \ shared
        diff_b == b.tokens \ shared
        da == CHOOSE t \in diff_a : TRUE
        db == CHOOSE t \in diff_b : TRUE
        dist == _levenshtein(da, db)
    IN  /\ ~(a.is_joint \/ b.is_joint)
        /\ a.tokens # b.tokens
        /\ ~(Cardinality(diff_a) # 1 \/ Cardinality(diff_b) # 1)
        /\ ~(dist > MaxEditDistance)
        /\ ~_middle_initial_conflicts(a.name, b.name)
        /\ ~(dist = 2 /\ (Len(da) <= ShortTokenLen \/ Len(db) <= ShortTokenLen))

FuzzyAccepts(a, b) ==
    LET shared == a.tokens \cap b.tokens
        diff_a == a.tokens \ shared
        diff_b == b.tokens \ shared
        da == CHOOSE t \in diff_a : TRUE
        db == CHOOSE t \in diff_b : TRUE
        dist == _levenshtein(da, db)
    IN  /\ ~(a.is_joint \/ b.is_joint)
        /\ a.tokens # b.tokens
        /\ ~(Cardinality(diff_a) # 1 \/ Cardinality(diff_b) # 1)
        /\ ~(dist > MaxEditDistance)
        /\ ~_middle_initial_conflicts(a.name, b.name)
        /\ ~(dist = 2 /\ (Len(da) <= ShortTokenLen \/ Len(db) <= ShortTokenLen))
        /\ ~(dist = 2 /\ Len(da) >= LongTokenLen /\ Len(db) >= LongTokenLen
                      /\ Len(da) - Len(db) = 0)

\* for jj in range(ii + 1, len(idx_list))
RECURSIVE Strategy4Pairs(_, _, _, _, _)
Strategy4Pairs(acc, records, idx_list, ii, jj) ==
    IF ii > Len(idx_list) THEN acc
    ELSE IF jj > Len(idx_list)
         THEN Strategy4Pairs(acc, records, idx_list, ii + 1, ii + 2)
    ELSE LET a == records[idx_list[ii]]
             b == records[idx_list[jj]]
             km == _pick_keep(a, b)
         IN  Strategy4Pairs(IF FuzzyAccepts(a, b)
                            THEN _add_merge(acc, km[1], km[2], "ocr-fuzzy")
                            ELSE acc,
                            records, idx_list, ii, jj + 1)

RECURSIVE Strategy4Blocks(_, _, _, _)
Strategy4Blocks(acc, records, keys_of, keys) ==
    IF Len(keys) = 0 THEN acc
    ELSE LET indices == BlockIndices(keys_of, Head(keys))
         IN  Strategy4Blocks(IF Cardinality(indices) < 2 THEN acc
                             ELSE Strategy4Pairs(acc, records, SortInts(indices), 1, 2),
                             records, keys_of, Tail(keys))

Strategy4(acc, records) ==
    LET keys_of == [i \in DOMAIN records |-> BlockKeysOf(records[i])]
    IN  Strategy4Blocks(acc, records, keys_of, Distinct(AllBlockKeys(keys_of, 1), {}))

\* _find_merge_candidates after the records are built
FindMergeCandidates(records) ==
    IF Len(records) < 2 THEN EmptyAcc
    ELSE Strategy4(Strategy3b(Strategy3(Strategy2b(Strategy2(Strategy1(
             EmptyAcc, records), records), records), records), records), records)

(***************************************************************************)
(* _apply_merges: the merge map (a dict, kept in insertion order as a      *)
(* sequence of <<merge_id, keep_id>> items).                               *)
(***************************************************************************)
MapKeys(m) == {m[i][1] : i \in DOMAIN m}
MapValues(m) == {m[i][2] : i \in DOMAIN m}
MapGet(m, k) == m[CHOOSE i \in DOMAIN m : m[i][1] = k][2]

\* m[k] = v: a new key goes last, an old key keeps its place
MapSet(m, k, v) ==
    IF k \in MapKeys(m)
    THEN [i \in DOMAIN m |-> IF m[i][1] = k THEN <<k, v>> ELSE m[i]]
    ELSE Append(m, <<k, v>>)

\* lines 425-427: entries that pointed to keep_id or merge_id are re-pointed
Repoint(m, keep_id, merge_id, ultimate_keep) ==
    [i \in DOMAIN m |->
        IF m[i][2] = keep_id \/ m[i][2] = merge_id
        THEN <<m[i][1], ultimate_keep>> ELSE m[i]]

\* lines 423-427 for one pair, the chain already followed to ultimate_keep
ProcessPair(m, keep_id, merge_id, ultimate_keep) ==
    Repoint(MapSet(m, merge_id, ultimate_keep), keep_id, merge_id, ultimate_keep)

(***************************************************************************)
(* _apply_merges: the rewrite of the two tables.                           *)
(***************************************************************************)
\* the value pandas reads as missing
NA == "<NA>"
DescText(raw) == IF raw = NA THEN "" ELSE raw

\* entity_id_to_idx[id]: a later row with the same id replaces an earlier one
HasId(rows, id) == \E i \in DOMAIN rows : rows[i].id = id
IdxOf(rows, id) ==
    CHOOSE i \in DOMAIN rows :
        rows[i].id = id /\ \A j \in DOMAIN rows : rows[j].id = id => j <= i

\* id_to_name.get(id, "")
NameOfId(rows, id) == IF HasId(rows, id) THEN rows[IdxOf(rows, id)].title ELSE ""

\* lines 449-454: merge_name_map as the items set in order
RECURSIVE MergeNameItems(_, _)
MergeNameItems(rows, m) ==
    IF Len(m) = 0 THEN <<>>
    ELSE LET old_name == NameOfId(rows, Head(m)[1])
             new_name == NameOfId(rows, Head(m)[2])
         IN  (IF old_name # "" /\ new_name # ""
              THEN <<<<old_name, new_name>>>> ELSE <<>>)
             \o MergeNameItems(rows, Tail(m))

\* merge_name_map.get(x, x): the item set last for x wins
NameMapGet(items, x) ==
    IF \E i \in DOMAIN items : items[i][1] = x
    THEN items[CHOOSE i \in DOMAIN items :
                 items[i][1] = x /\ \A j \in DOMAIN items : items[j][1] = x => j <= i][2]
    ELSE x

\* lines 457-469: descriptions combined, one item of merge_map after another
RECURSIVE CombineDescriptions(_, _)
CombineDescriptions(rows, m) ==
    IF Len(m) = 0 THEN rows
    ELSE LET merge_id == Head(m)[1]
             keep_id == Head(m)[2]
             keep_idx == IdxOf(rows, keep_id)
             merge_idx == IdxOf(rows, merge_id)
             keep_desc == DescText(rows[keep_idx].description)
             merge_desc == DescText(rows[merge_idx].description)
             combined == Strip(keep_desc \o " " \o merge_desc)
         IN  CombineDescriptions(
                 IF HasId(rows, merge_id) /\ HasId(rows, keep_id)
                    /\ merge_desc # "" /\ ~Contains(keep_desc, merge_desc)
                 THEN [rows EXCEPT ![keep_idx].description = combined]
                 ELSE rows,
                 Tail(m))

\* the merged rows are left in the table
RemoveNothing(rows, m) == rows

\* lines 472-473
RemoveMerged(rows, m) ==
    LET Kept(row) == row.id \notin MapKeys(m) IN SelectSeq(rows, Kept)

IdRedirect(m, x) == IF x \in MapKeys(m) THEN MapGet(m, x) ELSE x

\* lines 476-493: one relationship row redirected by id and by name
RedirectRow(cols, m, items, row) ==
    [row EXCEPT
       !.source_id = IF "source_id" \in cols THEN IdRedirect(m, @) ELSE @,
       !.target_id = IF "target_id" \in cols THEN IdRedirect(m, @) ELSE @,
       !.source = IF "source" \in cols THEN NameMapGet(items, @) ELSE @,
       !.target = IF "target" \in cols THEN NameMapGet(items, @) ELSE @]

\* lines 496-503
RemoveSelfReferential(cols, rows) ==
    LET ById(row) == row.source_id # row.target_id
        ByName(row) == row.source # row.target
    IN  IF "source_id" \in cols /\ "target_id" \in cols THEN SelectSeq(rows, ById)
        ELSE IF "source" \in cols /\ "target" \in cols THEN SelectSeq(rows, ByName)
        ELSE rows

\* lines 507-509; "" stands for None
WeightCol(cols) ==
    IF "combined_degree" \in cols THEN "combined_degree"
    ELSE IF "weight" \in cols THEN "weight" ELSE ""

\* a key that forgets the direction
UndirectedEdgeKey(row) == {row.source, row.target}

edge_key(row) == <<row.source, row.target>>

\* drop_duplicates(subset=["_edge_key"], keep="first")
RECURSIVE DropDuplicates(_, _)
DropDuplicates(rows, seen) ==
    IF Len(rows) = 0 THEN <<>>
    ELSE IF edge_key(Head(rows)) \in seen THEN DropDuplicates(Tail(rows), seen)
    ELSE <<Head(rows)>> \o DropDuplicates(Tail(rows), seen \cup {edge_key(Head(rows))})

IndexOrders(n) ==
    {f \in [1..n -> 1..n] : \A i, j \in 1..n : f[i] = f[j] => i = j}

\* sort_values(weight_col, ascending=False): the rows in an order of descending
\* weight_col; rows of equal weight_col may come out in either order
SortOutcomes(rows, weight_col) ==
    {[i \in 1..Len(rows) |-> rows[f[i]]] : f \in
        {g \in IndexOrders(Len(rows)) :
            \A i \in 1..(Len(rows) - 1) :
                rows[g[i]][weight_col] >= rows[g[i + 1]][weight_col]}}

\* lines 506-519: what the table of relationships may be after deduplication
DedupOutcomes(cols, rows) ==
    IF "source" \in cols /\ "target" \in cols
    THEN IF WeightCol(cols) # ""
         THEN {DropDuplicates(sorted, {}) : sorted \in SortOutcomes(rows, WeightCol(cols))}
         ELSE {DropDuplicates(rows, {})}
    ELSE {rows}

\* the name used for matching is written to the surviving rows
ApplyWithMatchingNames(rows, m) ==
    LET out == RemoveMerged(CombineDescriptions(rows, m), m)
    IN  [i \in DOMAIN out |->
            [out[i] EXCEPT !.title = _apply_known_aliases(@)]]

\* lines 429-473 on the entity rows
ApplyToEntities(rows, m) == RemoveMerged(CombineDescriptions(rows, m), m)

\* lines 475-503 on the relationship rows
RedirectedRelationships(cols, rel_rows, ent_rows, m) ==
    LET items == MergeNameItems(ent_rows, m)
    IN  RemoveSelfReferential(cols,
            [i \in DOMAIN rel_rows |-> RedirectRow(cols, m, items, rel_rows[i])])

(***************************************************************************)
(* State.                                                                  *)
(***************************************************************************)
VARIABLES
    entities_file,          \* entities.parquet: [exists, rows]
    relationships_file,     \* relationships.parquet: [exists, cols, rows]
    entities_bak,           \* entities.parquet.bak
    relationships_bak,      \* relationships.parquet.bak
    pc,                     \* where resolve_entities stands
    runs,                   \* calls of resolve_entities so far
    entities_df,            \* the entity rows in memory
    relationships_df,       \* [cols, rows] in memory
    original_counts,        \* [entities, relationships] at load
    records,                \* records of _find_merge_candidates
    acc,                    \* merge_pairs, seen_pairs and the logged reasons
    merge_map,              \* merge_map of _apply_merges
    pair_idx,               \* the pair of merge_pairs being processed
    ultimate_keep,          \* ultimate_keep of the chain-following loop
    results,                \* the summaries returned, one per call
    sync_pc,                \* where sync_and_index or force_reindex stands
    entry,                  \* which of the two was called
    index_version,          \* self.state.index_version
    saved_version,          \* index_version in the state file
    index_result,           \* index_result of the call
    returned,               \* what the last call returned
    calls,                  \* calls of the two so far
    tasks,                  \* TaskManager._tasks: the status of each sync task
    rejected,               \* POST /sync requests answered with 409
    lev_a,                  \* the arguments of a call of _levenshtein
    lev_b,
    lev_out                 \* what the call returned, -1 before it has

vars == <<entities_file, relationships_file, entities_bak, relationships_bak,
          pc, runs, entities_df, relationships_df, original_counts, records,
          acc, merge_map, pair_idx, ultimate_keep, results,
          sync_pc, entry, index_version, saved_version, index_result,
          returned, calls, tasks, rejected, lev_a, lev_b, lev_out>>

files == <<entities_file, relationships_file, entities_bak, relationships_bak>>
frames == <<entities_df, relationships_df, original_counts>>
candidates == <<records, acc>>
mapping == <<merge_map, pair_idx, ultimate_keep>>
pipeline == <<sync_pc, entry, index_version, saved_version, index_result,
              returned, calls>>
scheduling == <<tasks, rejected>>
distances == <<lev_a, lev_b, lev_out>>

\* resolve_entities has not set index_result["entity_resolution"]
NoResolution == [status |-> "none", error |-> "", merges |-> 0]
\* nothing to show for run_index, or nothing returned
NoIndexResult == [status |-> "none", error |-> "", entity_resolution |-> NoResolution]

NoFile == [exists |-> FALSE, rows |-> <<>>]
NoRelFile == [exists |-> FALSE, cols |-> {}, rows |-> <<>>]
NoFrame == [cols |-> {}, rows |-> <<>>]

(***************************************************************************)
(* Snapshots the extraction stage may leave behind.                        *)
(***************************************************************************)
Id(i) == "e" \o ToString(i)

FamilyJoint ==
    {"Blake & Chelsea McCarn", "Blake Chelsea McCarn", "Blake McCarn",
     "Blake and Chelsea McCarn", "Blake"}
FamilySmith == {"Smith", "John Smith", "Mary Smith", "John A Smith"}
FamilyInitials == {"John Smith", "John Smith.", "John A Smith", "John B Smith"}
FamilyAlias ==
    {"Chelsea McAdam", "Chelsea J McCarn", "Chelsea McCarn-McAdam",
     "Chelsea McAdam-McCarn", "Chelsea McAdan McCarn"}
FamilyFuzzy == {"Jonathan Carlsen", "Jonathan Carlson", "Jonathon Carlson"}
NameFamilies ==
    {FamilyJoint, FamilySmith, FamilyInitials, FamilyAlias, FamilyFuzzy}

PersonRows(names) ==
    [i \in DOMAIN names |->
        [id |-> Id(i), title |-> names[i], type |-> "PERSON", description |-> ""]]

\* one relationship row between rows src and tgt of an entity table
RelRow(ent_rows, src, tgt, weight, combined_degree) ==
    [source |-> ent_rows[src].title, target |-> ent_rows[tgt].title,
     source_id |-> ent_rows[src].id, target_id |-> ent_rows[tgt].id,
     weight |-> weight, combined_degree |-> combined_degree]

\* column sets of the relationship table
StandardCols == {"source", "target", "weight", "combined_degree"}
NamesAndIdsCols == {"source", "target", "source_id", "target_id", "weight"}
IdsOnlyCols == {"source_id", "target_id", "weight"}
RankOnlyCols == {"source", "target", "rank"}
RelColumnSets == {StandardCols, NamesAndIdsCols, IdsOnlyCols, RankOnlyCols}

\* the values of the columns a table does not carry are never read
BlankAbsent(cols, row) ==
    [source |-> IF "source" \in cols THEN row.source ELSE "",
     target |-> IF "target" \in cols THEN row.target ELSE "",
     source_id |-> IF "source_id" \in cols THEN row.source_id ELSE "",
     target_id |-> IF "target_id" \in cols THEN row.target_id ELSE "",
     weight |-> IF "weight" \in cols THEN row.weight ELSE 0,
     combined_degree |-> IF "combined_degree" \in cols THEN row.combined_degree ELSE 0]

\* every entity related to the next one, the last to the first
RingRows(ent_rows) ==
    [i \in DOMAIN ent_rows |->
        RelRow(ent_rows, i, (i % Len(ent_rows)) + 1, i, 0)]

StartState ==
    /\ entities_bak = NoFile
    /\ relationships_bak = NoRelFile
    /\ pc = "idle"
    /\ runs = 0
    /\ entities_df = <<>>
    /\ relationships_df = NoFrame
    /\ original_counts = [entities |-> 0, relationships |-> 0]
    /\ records = <<>>
    /\ acc = EmptyAcc
    /\ merge_map = <<>>
    /\ pair_idx = 0
    /\ ultimate_keep = ""
    /\ results = <<>>
    /\ sync_pc = "idle"
    /\ entry = ""
    /\ index_version = 0
    /\ saved_version = 0
    /\ index_result = NoIndexResult
    /\ returned = NoIndexResult
    /\ calls = 0
    /\ tasks = [t \in 1..MaxTasks |-> "none"]
    /\ rejected = 0
    /\ lev_a = ""
    /\ lev_b = ""
    /\ lev_out = -1

\* person snapshots over one family of names, each entity related to the next
InitNames ==
    /\ \E fam \in NameFamilies, n \in 0..MaxEntities :
          \E names \in [1..n -> fam] :
              /\ entities_file = [exists |-> TRUE, rows |-> PersonRows(names)]
              /\ relationships_file =
                   [exists |-> TRUE, cols |-> NamesAndIdsCols,
                    rows |-> RingRows(PersonRows(names))]
    /\ StartState

\* the entity rows of the snapshots with relationships
RelEntityPool ==
    <<[title |-> "John A. Smith", type |-> "PERSON"],
      [title |-> "John A Smith", type |-> "PERSON"],
      [title |-> "John Smith", type |-> "person"],
      [title |-> "John Smith", type |-> "ORGANIZATION"]>>

\* the rows of the pool at the places in S, in the order of the pool
RECURSIVE PoolRows(_, _)
PoolRows(S, k) ==
    IF S = {} THEN <<>>
    ELSE LET p == CHOOSE x \in S : \A y \in S : x <= y
         IN  <<[id |-> Id(k), title |-> RelEntityPool[p].title,
                type |-> RelEntityPool[p].type, description |-> ""]>>
             \o PoolRows(S \ {p}, k + 1)

\* snapshots of a few entities with relationships among them
InitRel ==
    /\ \E S \in SUBSET DOMAIN RelEntityPool, cols \in RelColumnSets, n \in 0..MaxRels :
          /\ Cardinality(S) <= MaxRelEntities
          /\ entities_file = [exists |-> TRUE, rows |-> PoolRows(S, 1)]
          /\ \E src, tgt \in [1..n -> 1..Cardinality(S)],
                w, cd \in [1..n -> 1..MaxWeight] :
                relationships_file =
                    [exists |-> TRUE, cols |-> cols,
                     rows |-> [i \in 1..n |->
                        BlankAbsent(cols, RelRow(PoolRows(S, 1), src[i], tgt[i],
                                                 w[i], cd[i]))]]
    /\ StartState

\* a snapshot of which a file is missing
InitMissing ==
    /\ \E ee, re \in BOOLEAN :
          /\ ~(ee /\ re)
          /\ entities_file =
               (IF ee THEN [exists |-> TRUE, rows |-> PersonRows(<<"Blake">>)]
                ELSE NoFile)
          /\ relationships_file =
               (IF re THEN [exists |-> TRUE, cols |-> StandardCols, rows |-> <<>>]
                ELSE NoRelFile)
    /\ StartState

Init == InitNames \/ InitMissing

(***************************************************************************)
(* Snapshots of the scenarios: rows with their own type and description.   *)
(***************************************************************************)
Person(title) == [title |-> title, type |-> "PERSON", description |-> ""]
Described(title, type, description) ==
    [title |-> title, type |-> type, description |-> description]

FamilyLowell ==
    {Person("Lowell E Lander"), Person("Lowell X Lander"),
     Person("Lowell Lander"), Person("Lowell E. Lander")}
FamilyBounded ==
    {Person("Jonathan Carlsen"), Person("Jonathan Carlson"),
     Person("John Grandfather"), Person("John Grandmother")}
FamilyShort ==
    {Person("John Smith Jr"), Person("John Smith Sr"),
     Person("Al Smith"), Person("Ed Smith")}
FamilyRoles ==
    {Person("Employee"), Person("EMPLOYEE"),
     Person("John Smith Tenant"), Person("John Smith")}
FamilySubset ==
    {Described("Blake T McCarn", "person", "engineer"),
     Described("Blake", "person", "pilot"),
     Described("Blake T. McCarn", "person", NA),
     Described("Blake", "person", "")}
FamilyAliasMerge ==
    {Described("Chelsea McAdam", "PERSON", "teacher"),
     Described("Chelsea McAdam", "PERSON", NA),
     Described("Chelsea J McCarn", "PERSON", "nurse"),
     Described("Chelsea J McCarn", "PERSON", "head teacher")}
FamilyTypes ==
    {Described("John Smith", "PERSON", "tall"),
     Described("John A. Smith", "person", "short"),
     Described("John Smith", "ORGANIZATION", "firm"),
     Described("John A Smith", "GEO", "town")}
ScenarioFamilies ==
    {FamilyLowell, FamilyBounded, FamilyShort, FamilyRoles, FamilySubset,
     FamilyAliasMerge, FamilyTypes}

ScenarioRows(f) ==
    [i \in DOMAIN f |->
        [id |-> Id(i), title |-> f[i].title, type |-> f[i].type,
         description |-> f[i].description, degree |-> i]]

\* snapshots over one scenario family, each entity related to the next
InitScenarios ==
    /\ \E fam \in ScenarioFamilies, n \in 0..MaxEntities :
          \E f \in [1..n -> fam] :
              /\ entities_file = [exists |-> TRUE, rows |-> ScenarioRows(f)]
              /\ relationships_file =
                   [exists |-> TRUE, cols |-> NamesAndIdsCols,
                    rows |-> RingRows(ScenarioRows(f))]
    /\ StartState

(***************************************************************************)
(* resolve_entities, step by step.                                         *)
(***************************************************************************)
Skipped == [status |-> "skipped", entities_before |-> 0, entities_after |-> 0,
            relationships_before |-> 0, relationships_after |-> 0, merges |-> 0]

Completed(eb, ea, rb, ra, n) ==
    [status |-> "completed", entities_before |-> eb, entities_after |-> ea,
     relationships_before |-> rb, relationships_after |-> ra, merges |-> n]

\* the skip leaves a copy of whatever file is there
SkipAfterBackup ==
    /\ pc = "idle"
    /\ runs < MaxRuns
    /\ ~entities_file.exists \/ ~relationships_file.exists
    /\ runs' = runs + 1
    /\ results' = Append(results, Skipped)
    /\ entities_bak' = entities_file
    /\ relationships_bak' = relationships_file
    /\ UNCHANGED <<distances, scheduling, pipeline, entities_file, relationships_file, pc, frames,
                   candidates, mapping>>

\* lines 541-543: a file is missing
ReturnSkipped ==
    /\ pc = "idle"
    /\ runs < MaxRuns
    /\ ~entities_file.exists \/ ~relationships_file.exists
    /\ runs' = runs + 1
    /\ results' = Append(results, Skipped)
    /\ UNCHANGED <<distances, scheduling, pipeline, files, pc, frames, candidates, mapping>>

\* lines 548-552: both files are read
Load ==
    /\ pc = "idle"
    /\ runs < MaxRuns
    /\ entities_file.exists /\ relationships_file.exists
    /\ runs' = runs + 1
    /\ entities_df' = entities_file.rows
    /\ relationships_df' = [cols |-> relationships_file.cols,
                            rows |-> relationships_file.rows]
    /\ original_counts' = [entities |-> Len(entities_file.rows),
                           relationships |-> Len(relationships_file.rows)]
    /\ pc' = "find"
    /\ UNCHANGED <<distances, scheduling, pipeline, files, candidates, mapping, results>>

\* lines 136-164: the person records; fewer than two end the search
BuildPersonRecords ==
    /\ pc = "find"
    /\ records' = BuildRecords(entities_df)
    /\ acc' = EmptyAcc
    /\ pc' = IF Len(records') < 2 THEN "found" ELSE "strategy1"
    /\ UNCHANGED <<distances, scheduling, pipeline, files, runs, frames, mapping, results>>

ExactNormStep ==
    /\ pc = "strategy1"
    /\ acc' = Strategy1(acc, records)
    /\ pc' = "strategy2"
    /\ UNCHANGED <<distances, scheduling, pipeline, files, runs, frames, records, mapping, results>>

TokenReorderStep ==
    /\ pc = "strategy2"
    /\ acc' = Strategy2(acc, records)
    /\ pc' = "strategy2b"
    /\ UNCHANGED <<distances, scheduling, pipeline, files, runs, frames, records, mapping, results>>

AliasMatchStep ==
    /\ pc = "strategy2b"
    /\ acc' = Strategy2b(acc, records)
    /\ pc' = "strategy3"
    /\ UNCHANGED <<distances, scheduling, pipeline, files, runs, frames, records, mapping, results>>

SubsetStep ==
    /\ pc = "strategy3"
    /\ acc' = Strategy3(acc, records)
    /\ pc' = "strategy3b"
    /\ UNCHANGED <<distances, scheduling, pipeline, files, runs, frames, records, mapping, results>>

AliasSubsetStep ==
    /\ pc = "strategy3b"
    /\ acc' = Strategy3b(acc, records)
    /\ pc' = "strategy4"
    /\ UNCHANGED <<distances, scheduling, pipeline, files, runs, frames, records, mapping, results>>

FuzzyStep ==
    /\ pc = "strategy4"
    /\ acc' = Strategy4(acc, records)
    /\ pc' = "found"
    /\ UNCHANGED <<distances, scheduling, pipeline, files, runs, frames, records, mapping, results>>

\* the run without candidates backs the two files up before it returns
ReturnNoMergesAfterBackup ==
    /\ pc = "found"
    /\ acc.merge_pairs = <<>>
    /\ results' = Append(results,
          Completed(original_counts.entities, original_counts.entities,
                    original_counts.relationships, original_counts.relationships, 0))
    /\ entities_bak' = entities_file
    /\ relationships_bak' = relationships_file
    /\ pc' = "idle"
    /\ UNCHANGED <<distances, scheduling, pipeline, entities_file, relationships_file, runs,
                   frames, candidates, mapping>>

\* lines 562-571: no candidates, nothing is written
ReturnNoMerges ==
    /\ pc = "found"
    /\ acc.merge_pairs = <<>>
    /\ results' = Append(results,
          Completed(original_counts.entities, original_counts.entities,
                    original_counts.relationships, original_counts.relationships, 0))
    /\ pc' = "idle"
    /\ UNCHANGED <<distances, scheduling, pipeline, files, runs, frames, candidates, mapping>>

\* lines 417-420: the loop over merge_pairs starts with the first pair
BeginApplyMerges ==
    /\ pc = "found"
    /\ acc.merge_pairs # <<>>
    /\ merge_map' = <<>>
    /\ pair_idx' = 1
    /\ ultimate_keep' = acc.merge_pairs[1][1]
    /\ pc' = "chase"
    /\ UNCHANGED <<distances, scheduling, pipeline, files, runs, frames, candidates, results>>

\* lines 421-422: one turn of the while loop
FollowChain ==
    /\ pc = "chase"
    /\ ultimate_keep \in MapKeys(merge_map)
    /\ ultimate_keep' = MapGet(merge_map, ultimate_keep)
    /\ UNCHANGED <<distances, scheduling, pipeline, files, pc, runs, frames, candidates, merge_map, pair_idx, results>>

\* lines 423-427 and the step to the next pair
RecordMerge ==
    /\ pc = "chase"
    /\ ultimate_keep \notin MapKeys(merge_map)
    /\ merge_map' = ProcessPair(merge_map, acc.merge_pairs[pair_idx][1],
                                acc.merge_pairs[pair_idx][2], ultimate_keep)
    /\ IF pair_idx < Len(acc.merge_pairs)
       THEN /\ pair_idx' = pair_idx + 1
            /\ ultimate_keep' = acc.merge_pairs[pair_idx + 1][1]
            /\ pc' = "chase"
       ELSE /\ pair_idx' = pair_idx
            /\ ultimate_keep' = ultimate_keep
            /\ pc' = "rewrite"
    /\ UNCHANGED <<distances, scheduling, pipeline, files, runs, frames, candidates, results>>

\* lines 429-521: both tables rewritten
RewriteTables ==
    /\ pc = "rewrite"
    /\ entities_df' = ApplyToEntities(entities_df, merge_map)
    /\ \E rows \in DedupOutcomes(relationships_df.cols,
                     RedirectedRelationships(relationships_df.cols,
                         relationships_df.rows, entities_df, merge_map)) :
          relationships_df' = [relationships_df EXCEPT !.rows = rows]
    /\ pc' = "backup_entities"
    /\ UNCHANGED <<distances, scheduling, pipeline, files, runs, original_counts, candidates, mapping, results>>

\* line 587
BackupEntities ==
    /\ pc = "backup_entities"
    /\ entities_bak' = entities_file
    /\ pc' = "backup_relationships"
    /\ UNCHANGED <<distances, scheduling, pipeline, entities_file, relationships_file, relationships_bak,
                   runs, frames, candidates, mapping, results>>

\* the relationship file is not copied
NoBackupOfRelationships ==
    /\ pc = "backup_relationships"
    /\ pc' = "write_entities"
    /\ UNCHANGED <<distances, scheduling, pipeline, files, runs, frames, candidates, mapping, results>>

\* line 588
BackupRelationships ==
    /\ pc = "backup_relationships"
    /\ relationships_bak' = relationships_file
    /\ pc' = "write_entities"
    /\ UNCHANGED <<distances, scheduling, pipeline, entities_file, relationships_file, entities_bak,
                   runs, frames, candidates, mapping, results>>

\* line 592
WriteEntities ==
    /\ pc = "write_entities"
    /\ entities_file' = [exists |-> TRUE, rows |-> entities_df]
    /\ pc' = "write_relationships"
    /\ UNCHANGED <<distances, scheduling, pipeline, relationships_file, entities_bak, relationships_bak,
                   runs, frames, candidates, mapping, results>>

\* line 593
WriteRelationships ==
    /\ pc = "write_relationships"
    /\ relationships_file' = [exists |-> TRUE, cols |-> relationships_df.cols,
                              rows |-> relationships_df.rows]
    /\ pc' = "return"
    /\ UNCHANGED <<distances, scheduling, pipeline, entities_file, entities_bak, relationships_bak,
                   runs, frames, candidates, mapping, results>>

\* lines 595-611
ReturnCompleted ==
    /\ pc = "return"
    /\ results' = Append(results,
          Completed(original_counts.entities, Len(entities_df),
                    original_counts.relationships, Len(relationships_df.rows),
                    Len(acc.merge_pairs)))
    /\ pc' = "idle"
    /\ UNCHANGED <<distances, scheduling, pipeline, files, runs, frames, candidates, mapping>>

Next ==
    \/ ReturnSkipped
    \/ Load
    \/ BuildPersonRecords
    \/ ExactNormStep
    \/ TokenReorderStep
    \/ AliasMatchStep
    \/ SubsetStep
    \/ AliasSubsetStep
    \/ FuzzyStep
    \/ ReturnNoMerges
    \/ BeginApplyMerges
    \/ FollowChain
    \/ RecordMerge
    \/ RewriteTables
    \/ BackupEntities
    \/ BackupRelationships
    \/ WriteEntities
    \/ WriteRelationships
    \/ ReturnCompleted

Spec == Init /\ [][Next]_vars

\* the same program over the snapshots with relationships
InitWithRelationships == InitRel \/ InitMissing
SpecRel == InitWithRelationships /\ [][Next]_vars

(***************************************************************************)
(* sync_and_index and force_reindex of SyncService, from the decision to   *)
(* index onwards.  resolve_entities is seen by what it hands back: a       *)
(* summary or an exception.                                                *)
(***************************************************************************)
resolution == <<files, pc, runs, frames, candidates, mapping, results>>

IndexFailed(error) ==
    [status |-> "failed", error |-> error, entity_resolution |-> NoResolution]
IndexSkipped ==
    [status |-> "skipped", error |-> "", entity_resolution |-> NoResolution]
IndexCompleted ==
    [status |-> "completed", error |-> "", entity_resolution |-> NoResolution]

\* the summaries resolve_entities returns
ResolutionSummaries ==
    {[status |-> "skipped", error |-> "", merges |-> 0],
     [status |-> "completed", error |-> "", merges |-> 0],
     [status |-> "completed", error |-> "", merges |-> 1]}
ResolutionFailed(error) == [status |-> "failed", error |-> error, merges |-> 0]

\* sync.py lines 376-402: the state is loaded, sync() has run, and indexing
\* is needed or not
StartSyncAndIndex ==
    /\ sync_pc = "idle"
    /\ calls < MaxCalls
    /\ calls' = calls + 1
    /\ entry' = "sync_and_index"
    /\ index_version' = saved_version
    /\ index_result' = NoIndexResult
    /\ \E has_changes \in BOOLEAN :
          LET is_first_run == saved_version = 0
              needs_indexing == has_changes \/ is_first_run
          IN  IF ~needs_indexing
              THEN /\ returned' = IndexSkipped
                   /\ sync_pc' = "idle"
              ELSE /\ returned' = NoIndexResult
                   /\ sync_pc' = "run_index"
    /\ UNCHANGED <<distances, scheduling, resolution, saved_version>>

\* sync.py lines 470-476
StartForceReindex ==
    /\ sync_pc = "idle"
    /\ calls < MaxCalls
    /\ calls' = calls + 1
    /\ entry' = "force_reindex"
    /\ index_version' = saved_version
    /\ index_result' = NoIndexResult
    /\ returned' = NoIndexResult
    /\ sync_pc' = "run_index"
    /\ UNCHANGED <<distances, scheduling, resolution, saved_version>>

\* sync.py lines 405-408, 479-482
RunIndexReturns ==
    /\ sync_pc = "run_index"
    /\ index_result' = IndexCompleted
    /\ sync_pc' = "resolve"
    /\ UNCHANGED <<distances, scheduling, resolution, entry, index_version, saved_version, returned, calls>>

\* sync.py lines 439-446, 519-526: run_index raises
RunIndexRaises ==
    /\ sync_pc = "run_index"
    /\ returned' = IndexFailed("index error")
    /\ sync_pc' = "idle"
    /\ UNCHANGED <<distances, scheduling, resolution, entry, index_version, saved_version, index_result, calls>>

\* sync.py lines 414-429, 488-503
ResolveEntitiesReturns ==
    /\ sync_pc = "resolve"
    /\ \E summary \in ResolutionSummaries :
          index_result' = [index_result EXCEPT !.entity_resolution = summary]
    /\ sync_pc' = "increment"
    /\ UNCHANGED <<distances, scheduling, resolution, entry, index_version, saved_version, returned, calls>>

\* resolve_entities raises and the exception leaves the call
ResolveEntitiesFailsTheCall ==
    /\ sync_pc = "resolve"
    /\ returned' = IndexFailed("resolution error")
    /\ sync_pc' = "idle"
    /\ UNCHANGED <<distances, scheduling, resolution, entry, index_version, saved_version, index_result, calls>>

\* sync.py lines 430-435, 504-509: resolve_entities raises
ResolveEntitiesRaises ==
    /\ sync_pc = "resolve"
    /\ index_result' = [index_result EXCEPT
          !.entity_resolution = ResolutionFailed("resolution error")]
    /\ sync_pc' = "increment"
    /\ UNCHANGED <<distances, scheduling, resolution, entry, index_version, saved_version, returned, calls>>

\* sync.py lines 437, 511
IncrementIndexVersion ==
    /\ sync_pc = "increment"
    /\ index_version' = index_version + 1
    /\ sync_pc' = "save"
    /\ UNCHANGED <<distances, scheduling, resolution, entry, saved_version, index_result, returned, calls>>

\* sync.py lines 438, 512
SaveStateReturns ==
    /\ sync_pc = "save"
    /\ saved_version' = index_version
    /\ sync_pc' = "return"
    /\ UNCHANGED <<distances, scheduling, resolution, entry, index_version, index_result, returned, calls>>

\* save_state raises: the state file is as it was, or no longer loads and
\* the next load starts from a fresh state
SaveStateRaises ==
    /\ sync_pc = "save"
    /\ saved_version' \in {saved_version, 0}
    /\ returned' = IndexFailed("save error")
    /\ sync_pc' = "idle"
    /\ UNCHANGED <<distances, scheduling, resolution, entry, index_version, index_result, calls>>

\* sync.py lines 448-451, 514-517
ReturnIndexResult ==
    /\ sync_pc = "return"
    /\ returned' = index_result
    /\ sync_pc' = "idle"
    /\ UNCHANGED <<distances, scheduling, resolution, entry, index_version, saved_version, index_result, calls>>

NextSync ==
    \/ StartSyncAndIndex
    \/ StartForceReindex
    \/ RunIndexReturns
    \/ RunIndexRaises
    \/ ResolveEntitiesReturns
    \/ ResolveEntitiesRaises
    \/ IncrementIndexVersion
    \/ SaveStateReturns
    \/ SaveStateRaises
    \/ ReturnIndexResult

InitSync ==
    /\ entities_file = NoFile
    /\ relationships_file = NoRelFile
    /\ StartState

SpecSync == InitSync /\ [][NextSync]_vars

(***************************************************************************)
(* POST /sync and the background task it queues (routes.py, background.py) *)
(* as far as the TaskManager sees them.  A task id stands for the uuid of  *)
(* create_task; "none" is an id not yet handed out.                        *)
(***************************************************************************)
\* TaskManager.has_running_task("sync")
has_running_task == \E t \in DOMAIN tasks : tasks[t] = "running"

\* the id create_task hands out next
NextTaskId == CHOOSE t \in DOMAIN tasks :
                 tasks[t] = "none" /\ \A u \in DOMAIN tasks : tasks[u] = "none" => t <= u

\* routes.py lines 173-218: the handler runs without awaiting anything
trigger_sync ==
    /\ IF has_running_task
       THEN /\ rejected < MaxRejected
            /\ rejected' = rejected + 1
            /\ tasks' = tasks
       ELSE /\ \E t \in DOMAIN tasks : tasks[t] = "none"
            /\ tasks' = [tasks EXCEPT ![NextTaskId] = "pending"]
            /\ rejected' = rejected
    /\ UNCHANGED <<distances, resolution, pipeline>>

\* routes.py lines 188-196: the queued run_sync begins, after the response
start_task ==
    /\ \E t \in DOMAIN tasks :
          /\ tasks[t] = "pending"
          /\ tasks' = [tasks EXCEPT ![t] = "running"]
    /\ UNCHANGED <<distances, resolution, pipeline, rejected>>

\* routes.py lines 197-205: sync_and_index returned
complete_task ==
    /\ \E t \in DOMAIN tasks :
          /\ tasks[t] = "running"
          /\ tasks' = [tasks EXCEPT ![t] = "completed"]
    /\ UNCHANGED <<distances, resolution, pipeline, rejected>>

\* routes.py lines 207-209: run_sync caught an exception
fail_task ==
    /\ \E t \in DOMAIN tasks :
          /\ tasks[t] = "running"
          /\ tasks' = [tasks EXCEPT ![t] = "failed"]
    /\ UNCHANGED <<distances, resolution, pipeline, rejected>>

NextTasks == trigger_sync \/ start_task \/ complete_task \/ fail_task

SpecTasks == InitSync /\ [][NextTasks]_vars

(***************************************************************************)
(* _levenshtein called on its own, on every pair of short strings.         *)
(***************************************************************************)
LevAlphabet == {"a", "b", "c"}

\* the strings over LevAlphabet of length n or less
RECURSIVE StringsUpTo(_)
StringsUpTo(n) ==
    IF n = 0 THEN {""}
    ELSE LET shorter == StringsUpTo(n - 1)
         IN  shorter \cup {s \o c : s \in shorter, c \in LevAlphabet}

InitLev ==
    /\ entities_file = NoFile
    /\ relationships_file = NoRelFile
    /\ entities_bak = NoFile
    /\ relationships_bak = NoRelFile
    /\ pc = "idle"
    /\ runs = 0
    /\ entities_df = <<>>
    /\ relationships_df = NoFrame
    /\ original_counts = [entities |-> 0, relationships |-> 0]
    /\ records = <<>>
    /\ acc = EmptyAcc
    /\ merge_map = <<>>
    /\ pair_idx = 0
    /\ ultimate_keep = ""
    /\ results = <<>>
    /\ sync_pc = "idle"
    /\ entry = ""
    /\ index_version = 0
    /\ saved_version = 0
    /\ index_result = NoIndexResult
    /\ returned = NoIndexResult
    /\ calls = 0
    /\ tasks = [t \in 1..MaxTasks |-> "none"]
    /\ rejected = 0
    /\ lev_a \in StringsUpTo(MaxLen)
    /\ lev_b \in StringsUpTo(MaxLen)
    /\ lev_out = -1

\* lines 41-53: the call returns
CallLevenshtein ==
    /\ lev_out = -1
    /\ lev_out' = _levenshtein(lev_a, lev_b)
    /\ UNCHANGED <<resolution, pipeline, scheduling, lev_a, lev_b>>

SpecLev == InitLev /\ [][CallLevenshtein]_vars

\* three spellings of one person whose proposals close a circle, and the
\* rows an extraction may add to them
ChainTrio ==
    <<Described("Chelsea McCarn-McAdam", "PERSON", "teacher"),
      Described("Chelsea McAdam-McCarn", "PERSON", "nurse"),
      Described("Chelsea McAdan McCarn", "PERSON", "pilot")>>
ChainExtras ==
    {Described("Chelsea McAdan McCarm", "PERSON", "driver"),
     Described("Acme Insurance", "ORGANIZATION", "insurer"),
     Described("John Smith", "PERSON", "")}

\* snapshots that start with the first rows of the trio
InitChain ==
    /\ \E k \in 0..MaxExtra :
          \E extra \in [1..k -> ChainExtras] :
              \E n \in 0..(Len(ChainTrio) + k) :
                  LET rows == ScenarioRows(SubSeq(ChainTrio \o extra, 1, n))
                  IN  /\ entities_file = [exists |-> TRUE, rows |-> rows]
                      /\ relationships_file =
                           [exists |-> TRUE, cols |-> NamesAndIdsCols,
                            rows |-> RingRows(rows)]
    /\ StartState

InitWithChain == InitChain \/ InitMissing
SpecChain == InitWithChain /\ [][Next]_vars

\* the same program over the snapshots of the scenarios
InitWithScenarios == InitScenarios \/ InitMissing
SpecScenarios == InitWithScenarios /\ [][Next]_vars

(***************************************************************************)
(* Vocabulary of the properties.                                           *)
(***************************************************************************)
\* the record of the current run with this id
RecOfId(id) == records[CHOOSE i \in DOMAIN records : records[i].id = id]

\* the merge map of the current run is complete
MapFinal ==
    pc \in {"rewrite", "backup_entities", "backup_relationships",
            "write_entities", "write_relationships", "return"}

\* both tables of the current run have been rewritten in memory
Applied ==
    pc \in {"backup_entities", "backup_relationships",
            "write_entities", "write_relationships", "return"}

PairIds == UNION {{acc.merge_pairs[i][1], acc.merge_pairs[i][2]} :
                      i \in DOMAIN acc.merge_pairs}

Linked(a, b) ==
    \E i \in DOMAIN acc.merge_pairs :
        acc.merge_pairs[i] \in {<<a, b>>, <<b, a>>}

\* the connected component of the proposal graph that holds the ids of S
RECURSIVE Grow(_)
Grow(S) ==
    LET T == S \cup {b \in PairIds : \E a \in S : Linked(a, b)}
    IN  IF T = S THEN S ELSE Grow(T)

ComponentOf(a) == Grow({a})

TableIds(rows) == {rows[i].id : i \in DOMAIN rows}
TableTitles(rows) == {rows[i].title : i \in DOMAIN rows}
RecordNames == {records[i].name : i \in DOMAIN records}

(***************************************************************************)
(* C1                                                                      *)
(***************************************************************************)
\* C1: idempotence of resolve_entities.  When the first run on a snapshot
\* returns completed, the second run on the files it left behind returns
\* completed with merges = 0 and entities_after = entities_before, and the
\* entity file is what that run loaded.
C1_Idempotence ==
    (Len(results) >= 2 /\ results[1].status = "completed")
        => /\ results[2].status = "completed"
           /\ results[2].merges = 0
           /\ results[2].entities_after = results[2].entities_before
           /\ entities_file.rows = entities_df

\* a first run that merged something, followed by a second run
C1_Witness ==
    /\ Len(results) >= 2
    /\ results[1].status = "completed"
    /\ results[1].merges > 0
    /\ results[1].entities_after < results[1].entities_before
    /\ results[2].merges = 0

(***************************************************************************)
(* C2                                                                      *)
(***************************************************************************)
\* C2: joint-entity invariant.  No proposed merge pair, whichever strategy
\* proposed it, has a joint entity as its keep side or as its merge side;
\* a joint entity is never a canonical of the merge map and its row is
\* never removed from the entity table.
C2_JointEntityInvariant ==
    /\ \A i \in DOMAIN acc.merge_pairs :
          /\ ~RecOfId(acc.merge_pairs[i][1]).is_joint
          /\ ~RecOfId(acc.merge_pairs[i][2]).is_joint
    /\ MapFinal =>
          \A i \in DOMAIN records :
              records[i].is_joint =>
                  /\ records[i].id \notin MapValues(merge_map)
                  /\ records[i].id \notin MapKeys(merge_map)
    /\ Applied =>
          \A i \in DOMAIN records :
              records[i].is_joint => records[i].id \in TableIds(entities_df)

(***************************************************************************)
(* C3                                                                      *)
(***************************************************************************)
\* C3: joint-entity guard for the named pair.  In a snapshot that holds
\* "Blake & Chelsea McCarn" and "Blake McCarn", the joint entity is never a
\* canonical, no proposal pairs the two, and the final merge map sends
\* neither to the other, directly or through other proposals.
C3_NamedPairGuard ==
    \A i, j \in DOMAIN records :
        (records[i].name = "Blake & Chelsea McCarn"
         /\ records[j].name = "Blake McCarn")
        => /\ ~Linked(records[i].id, records[j].id)
           /\ MapFinal =>
                 /\ records[i].id \notin MapValues(merge_map)
                 /\ IdRedirect(merge_map, records[j].id) # records[i].id
                 /\ IdRedirect(merge_map, records[i].id) # records[j].id
                 /\ IdRedirect(merge_map, records[i].id)
                        # IdRedirect(merge_map, records[j].id)

(***************************************************************************)
(* C4                                                                      *)
(***************************************************************************)
\* C4: one canonical per merge group.  After _apply_merges exactly one
\* entity of every connected component of the proposal graph remains in the
\* entity table, and every other member of the component is mapped to it.
C4_OneCanonicalPerGroup ==
    Applied =>
        \A a \in PairIds :
            LET group == ComponentOf(a)
                left == group \cap TableIds(entities_df)
            IN  /\ Cardinality(left) = 1
                /\ \A x \in group \ left :
                       /\ x \in MapKeys(merge_map)
                       /\ MapGet(merge_map, x) \in left

(***************************************************************************)
(* C5                                                                      *)
(***************************************************************************)
\* C5: flat merge map.  After each pair is processed and in the final map,
\* no id that is a value of the map is also a key of it (so no id maps to
\* itself), and no canonical is removed from the entity table.
C5_FlatMergeMap ==
    /\ (pc = "chase" \/ MapFinal) =>
           MapKeys(merge_map) \cap MapValues(merge_map) = {}
    /\ Applied =>
           \A v \in MapValues(merge_map) :
               v \in TableIds(entities_df)

(***************************************************************************)
(* C9                                                                      *)
(***************************************************************************)
\* C9: orientation-independent dedup of proposals.  In the list of merge
\* pairs every unordered pair of entity ids occurs at most once: a pair
\* proposed again, in the same or in the reversed orientation, is dropped
\* and the first proposal stays.
C9_OnePairPerUnorderedPair ==
    /\ \A i, j \in DOMAIN acc.merge_pairs :
          i # j =>
              /\ acc.merge_pairs[i] # acc.merge_pairs[j]
              /\ acc.merge_pairs[i]
                     # <<acc.merge_pairs[j][2], acc.merge_pairs[j][1]>>
    /\ acc.seen_pairs = Range(acc.merge_pairs)

\* the alias-subset strategy proposed the reverse of a pair already seen
C9_Witness ==
    /\ pc = "found"
    /\ \E i, j \in DOMAIN records :
          /\ i # j
          /\ AliasSubsetSource(records[i])
          /\ j \in AliasSubsetCandidates(records, i)
          /\ AliasSubsetAccepts(records[i], records[j])
          /\ LET km == _pick_keep(records[j], records[i])
             IN  /\ <<km[2].id, km[1].id>> \in acc.seen_pairs
                 /\ <<km[1].id, km[2].id>> \notin acc.seen_pairs

(***************************************************************************)
(* C10                                                                     *)
(***************************************************************************)
AmbiguousSingleToken(r) ==
    /\ Cardinality(r.tokens) = 1
    /\ r.tokens \subseteq ambiguous_lastnames(records)

SmithTrio == {"Smith", "John Smith", "Mary Smith"}

\* C10: ambiguity guard.  With "Smith", "John Smith" and "Mary Smith" in the
\* table no proposal pairs "Smith" with either of the other two, and when
\* the table is these three nothing is proposed and all three remain; a
\* single-token name whose token is an ambiguous last name is on neither
\* side of a pair proposed by the subset strategies.
C10_AmbiguityGuard ==
    /\ \A i \in DOMAIN acc.merge_pairs :
          acc.reasons[i] \in {"subset", "alias-subset"} =>
              /\ ~AmbiguousSingleToken(RecOfId(acc.merge_pairs[i][1]))
              /\ ~AmbiguousSingleToken(RecOfId(acc.merge_pairs[i][2]))
    /\ SmithTrio \subseteq RecordNames =>
          \A i, j \in DOMAIN records :
              (records[i].name = "Smith"
               /\ records[j].name \in {"John Smith", "Mary Smith"})
              => /\ ~Linked(records[i].id, records[j].id)
                 /\ MapFinal => IdRedirect(merge_map, records[i].id)
                                    # IdRedirect(merge_map, records[j].id)
    /\ (Len(records) = 3 /\ RecordNames = SmithTrio) =>
          /\ acc.merge_pairs = <<>>
          /\ TableTitles(entities_file.rows) = SmithTrio

\* the three entities went through a whole run and all three remain
C10_Witness ==
    /\ Len(records) = 3 /\ RecordNames = SmithTrio
    /\ "SMITH" \in ambiguous_lastnames(records)
    /\ pc = "idle"
    /\ Len(results) >= 1
    /\ results[Len(results)].status = "completed"
    /\ results[Len(results)].entities_after = 3
    /\ Len(entities_file.rows) = 3

(***************************************************************************)
(* C6                                                                      *)
(***************************************************************************)
\* a relationship row names the entity with this id at one of its ends
RefersTo(row, id, canonical) ==
    \/ row.source_id = id
    \/ row.target_id = id
    \/ (RecOfId(id).name # RecOfId(canonical).name
        /\ RecOfId(id).name \in {row.source, row.target})

\* C6: transitivity.  When one proposal merges A into B and another merges B
\* into C, after _apply_merges the entity table holds C and neither A nor B,
\* the merge map sends A and B to C, and no relationship row still refers
\* to A or to B, by id or by name.
C6_Transitivity ==
    Applied =>
        \A i, j \in DOMAIN acc.merge_pairs :
            (i # j /\ acc.merge_pairs[i][1] = acc.merge_pairs[j][2]) =>
                LET A == acc.merge_pairs[i][2]
                    B == acc.merge_pairs[i][1]
                    C == acc.merge_pairs[j][1]
                IN  /\ C \in TableIds(entities_df)
                    /\ A \notin TableIds(entities_df)
                    /\ B \notin TableIds(entities_df)
                    /\ IdRedirect(merge_map, A) = C
                    /\ IdRedirect(merge_map, B) = C
                    /\ \A k \in DOMAIN relationships_df.rows :
                           /\ ~RefersTo(relationships_df.rows[k], A, C)
                           /\ ~RefersTo(relationships_df.rows[k], B, C)

(***************************************************************************)
(* C7                                                                      *)
(***************************************************************************)
\* the last call of resolve_entities returned completed
RunCompleted ==
    /\ pc = "idle"
    /\ Len(results) >= 1
    /\ results[Len(results)].status = "completed"

HasNames(cols) == "source" \in cols /\ "target" \in cols
HasIds(cols) == "source_id" \in cols /\ "target_id" \in cols

\* C7: no self-loops.  After every run that returns completed, whatever the
\* snapshot was and whether or not anything was merged, no relationship row
\* of the snapshot has its source equal to its target, in the name columns
\* and in the id columns alike.
C7_NoSelfLoops ==
    RunCompleted =>
        \A k \in DOMAIN relationships_file.rows :
            LET row == relationships_file.rows[k]
            IN  /\ HasNames(relationships_file.cols) => row.source # row.target
                /\ HasIds(relationships_file.cols) => row.source_id # row.target_id

(***************************************************************************)
(* C8                                                                      *)
(***************************************************************************)
\* the ordered pair of endpoints of a row in the columns the table carries
Endpoints(cols, row) ==
    IF HasNames(cols) THEN <<row.source, row.target>>
    ELSE <<row.source_id, row.target_id>>

\* the rows of the snapshot on disk after redirection, while the rewritten
\* tables are still in memory only
RedirectedOnDisk ==
    RedirectedRelationships(relationships_file.cols, relationships_file.rows,
                            entities_file.rows, merge_map)

\* C8: no duplicate directed edges.  After every run that returns completed,
\* whichever columns the relationship table carries, at most one row remains
\* for every ordered (source, target) pair, and the row that remains has the
\* highest weight among the redirected rows that shared the pair.
C8_NoDuplicateEdges ==
    /\ RunCompleted =>
          \A k, l \in DOMAIN relationships_file.rows :
              k # l =>
                  Endpoints(relationships_file.cols, relationships_file.rows[k])
                      # Endpoints(relationships_file.cols, relationships_file.rows[l])
    /\ (pc \in {"backup_entities", "backup_relationships", "write_entities"}
        /\ "weight" \in relationships_df.cols) =>
          \A k \in DOMAIN relationships_df.rows :
              \A l \in DOMAIN RedirectedOnDisk :
                  Endpoints(relationships_df.cols, RedirectedOnDisk[l])
                      = Endpoints(relationships_df.cols, relationships_df.rows[k])
                  => RedirectedOnDisk[l].weight <= relationships_df.rows[k].weight

(***************************************************************************)
(* C11                                                                     *)
(***************************************************************************)
\* two names of the same number of tokens, three or more, with different
\* single-character tokens at the same place
DifferentInitials(name_a, name_b) ==
    LET ta == Split(_normalize_name(name_a))
        tb == Split(_normalize_name(name_b))
    IN  /\ Len(ta) = Len(tb)
        /\ Len(ta) >= 3
        /\ \E k \in DOMAIN ta :
              Len(ta[k]) = 1 /\ Len(tb[k]) = 1 /\ ta[k] # tb[k]

CandidatesFound == pc = "found" \/ pc = "chase" \/ MapFinal

\* C12: subset merge of a single-token name.  A non-joint person whose one
\* token passes the proper-noun check, is not an ambiguous last name and is
\* in the larger token set of a non-joint person is proposed for merging
\* into that person; for "Blake T McCarn" and "Blake" alone the run removes
\* "Blake", and the description of "Blake T McCarn" takes in that of "Blake".
C12_SingleTokenSubsetMerge ==
    /\ CandidatesFound =>
          \A i, j \in DOMAIN records :
              (/\ ~records[i].is_joint /\ ~records[j].is_joint
               /\ Cardinality(records[i].tokens) = 1
               /\ records[i].is_proper
               /\ ~AmbiguousSingleToken(records[i])
               /\ StrictSubset(records[i].tokens, records[j].tokens))
              => Linked(records[j].id, records[i].id)
    /\ (RunCompleted /\ Len(records) = 2
        /\ RecordNames = {"Blake T McCarn", "Blake"}) =>
          /\ TableTitles(entities_file.rows) = {"Blake T McCarn"}
          /\ \A k \in DOMAIN relationships_file.rows :
                "Blake" \notin {relationships_file.rows[k].source,
                                relationships_file.rows[k].target}

(***************************************************************************)
(* C13                                                                     *)
(***************************************************************************)
AliasPair == {"Chelsea McAdam", "Chelsea J McCarn"}

\* the description of the row of this title, as text
DescOfTitle(rows, title) ==
    DescText(rows[CHOOSE i \in DOMAIN rows : rows[i].title = title].description)

\* C13: alias merge.  For the persons "Chelsea McAdam" and "Chelsea J McCarn"
\* alone, the only proposal merges "Chelsea McAdam" into "Chelsea J McCarn",
\* and the run leaves the one row "Chelsea J McCarn", under its id and
\* title, with a description that contains that of "Chelsea McAdam".
C13_AliasMerge ==
    /\ (CandidatesFound /\ Len(records) = 2 /\ RecordNames = AliasPair) =>
          /\ Len(acc.merge_pairs) = 1
          /\ RecOfId(acc.merge_pairs[1][1]).name = "Chelsea J McCarn"
          /\ RecOfId(acc.merge_pairs[1][2]).name = "Chelsea McAdam"
    /\ (pc = "return" /\ Len(entities_bak.rows) = 2
        /\ TableTitles(entities_bak.rows) = AliasPair) =>
          /\ Len(entities_file.rows) = 1
          /\ entities_file.rows[1].title = "Chelsea J McCarn"
          /\ entities_file.rows[1].id \in
                {entities_bak.rows[i].id : i \in
                    {k \in DOMAIN entities_bak.rows :
                        entities_bak.rows[k].title = "Chelsea J McCarn"}}
          /\ Contains(DescText(entities_file.rows[1].description),
                      DescOfTitle(entities_bak.rows, "Chelsea McAdam"))

\* the two were merged and the description of the absorbed one was added
C13_Witness ==
    /\ pc = "return"
    /\ Len(entities_bak.rows) = 2
    /\ TableTitles(entities_bak.rows) = AliasPair
    /\ DescOfTitle(entities_bak.rows, "Chelsea McAdam") = "teacher"
    /\ DescOfTitle(entities_bak.rows, "Chelsea J McCarn") = "nurse"
    /\ Len(entities_file.rows) = 1
    /\ entities_file.rows[1].description = "nurse teacher"

(***************************************************************************)
(* C14                                                                     *)
(***************************************************************************)
\* the tokens of the record with id a that the record with id b lacks
OwnTokens(a, b) == RecOfId(a).tokens \ RecOfId(b).tokens

\* the records of these two names are paired
NamesLinked(name_a, name_b) ==
    \E i, j \in DOMAIN records :
        /\ records[i].name = name_a
        /\ records[j].name = name_b
        /\ Linked(records[i].id, records[j].id)

\* C14: bounded fuzzy match.  Every pair the fuzzy strategy proposes differs
\* in exactly one token on each side, the two tokens are at Levenshtein
\* distance 2 or less, and they are not two tokens of one length of 8 or more
\* at distance 2; "Jonathan Carlsen" and "Jonathan Carlson" are paired,
\* "John Grandfather" and "John Grandmother" are not.
C14_BoundedFuzzyMatch ==
    /\ \A i \in DOMAIN acc.merge_pairs :
          acc.reasons[i] = "ocr-fuzzy" =>
              LET diff_a == OwnTokens(acc.merge_pairs[i][1], acc.merge_pairs[i][2])
                  diff_b == OwnTokens(acc.merge_pairs[i][2], acc.merge_pairs[i][1])
              IN  /\ Cardinality(diff_a) = 1
                  /\ Cardinality(diff_b) = 1
                  /\ \A da \in diff_a, db \in diff_b :
                         /\ _levenshtein(da, db) <= 2
                         /\ ~(/\ _levenshtein(da, db) = 2
                              /\ Len(da) = Len(db)
                              /\ Len(da) >= 8)
    /\ CandidatesFound =>
          /\ {"Jonathan Carlsen", "Jonathan Carlson"} \subseteq RecordNames
                => NamesLinked("Jonathan Carlsen", "Jonathan Carlson")
          /\ ~NamesLinked("John Grandfather", "John Grandmother")

\* the two grandparents went through the fuzzy strategy: their names differ
\* in one token on each side, of one length of 8 or more, at distance 2
C14_Witness ==
    /\ pc = "found"
    /\ \E i, j \in DOMAIN records :
          /\ records[i].name = "John Grandfather"
          /\ records[j].name = "John Grandmother"
          /\ OwnTokens(records[i].id, records[j].id) = {"GRANDFATHER"}
          /\ OwnTokens(records[j].id, records[i].id) = {"GRANDMOTHER"}
          /\ _levenshtein("GRANDFATHER", "GRANDMOTHER") = 2
          /\ ~Linked(records[i].id, records[j].id)

(***************************************************************************)
(* C15                                                                     *)
(***************************************************************************)
\* the table as loaded is still in memory
TableAsLoaded ==
    pc \in {"strategy1", "strategy2", "strategy2b", "strategy3", "strategy3b",
            "strategy4", "found", "chase", "rewrite"}

\* the rewritten table is in memory and the file is not yet overwritten
BeforeOverwrite ==
    pc \in {"backup_entities", "backup_relationships", "write_entities"}

TypeOfId(rows, id) == rows[IdxOf(rows, id)].type

\* C15: no cross-type merges.  Every proposed pair is of two distinct
\* entities whose type is person, whatever the case of the letters; after
\* resolution every entity of another type is in the table as it was, with
\* its description.
C15_NoCrossTypeMerges ==
    /\ TableAsLoaded =>
          \A i \in DOMAIN acc.merge_pairs :
              /\ acc.merge_pairs[i][1] # acc.merge_pairs[i][2]
              /\ MapUpper(TypeOfId(entities_df, acc.merge_pairs[i][1])) = "PERSON"
              /\ MapUpper(TypeOfId(entities_df, acc.merge_pairs[i][2])) = "PERSON"
    /\ BeforeOverwrite =>
          \A k \in DOMAIN entities_file.rows :
              MapUpper(entities_file.rows[k].type) # "PERSON" =>
                  \E l \in DOMAIN entities_df :
                      entities_df[l] = entities_file.rows[k]

\* a person is merged away while an organization of the same title stays
C15_Witness ==
    /\ BeforeOverwrite
    /\ \E k, l \in DOMAIN entities_file.rows :
          /\ entities_file.rows[k].type = "ORGANIZATION"
          /\ entities_file.rows[l].type = "PERSON"
          /\ entities_file.rows[k].title = entities_file.rows[l].title
          /\ entities_file.rows[l].id \in MapKeys(merge_map)
          /\ entities_file.rows[k].id \in TableIds(entities_df)

(***************************************************************************)
(* C16                                                                     *)
(***************************************************************************)
\* C16: backup before overwrite.  When the write of either snapshot file
\* begins, both .bak files exist and hold what the two files held before
\* the run, and no write touches a .bak file; so at every point of the
\* overwrite both .bak files hold the pre-resolution contents.
C16_BackupBeforeOverwrite ==
    [][/\ pc = "write_entities" =>
             /\ entities_bak.exists /\ relationships_bak.exists
             /\ entities_bak = entities_file
             /\ relationships_bak = relationships_file
       /\ pc = "write_relationships" =>
             /\ entities_bak.exists /\ relationships_bak.exists
             /\ Len(entities_bak.rows) = original_counts.entities
             /\ relationships_bak = relationships_file
       /\ (entities_file' # entities_file \/ relationships_file' # relationships_file) =>
             /\ pc \in {"write_entities", "write_relationships"}
             /\ entities_bak' = entities_bak
             /\ relationships_bak' = relationships_bak]_vars

\* the entity file is overwritten, the relationship file is not yet, and the
\* .bak files hold what the run loaded
C16_Witness ==
    /\ pc = "write_relationships"
    /\ entities_bak.exists /\ relationships_bak.exists
    /\ entities_file.rows # entities_bak.rows
    /\ Len(entities_bak.rows) = original_counts.entities
    /\ relationships_bak = relationships_file
    /\ relationships_df.rows # relationships_file.rows

(***************************************************************************)
(* C17: a failure of entity resolution is not fatal to indexing.  When     *)
(* resolve_entities raises after run_index has succeeded, sync_and_index   *)
(* and force_reindex record entity_resolution = {status: failed, error}    *)
(* in the run_index result, go on to increment index_version by exactly    *)
(* one over the loaded version, save the state, and return that result;    *)
(* an index status of failed is returned only for an error of run_index or *)
(* of save_state, never for one of resolve_entities.                       *)
(***************************************************************************)
ResolutionRaised ==
    /\ index_result.status = "completed"
    /\ index_result.entity_resolution.status = "failed"

C17_ResolutionFailureNonFatal ==
    [][ /\ sync_pc = "resolve" =>
            /\ sync_pc' = "increment"
            /\ index_version' = index_version
            /\ index_version = saved_version
            /\ index_result'.status = "completed"
            /\ returned' = returned
        /\ (sync_pc = "increment" /\ ResolutionRaised) =>
            /\ index_version' = saved_version + 1
            /\ index_result' = index_result
            /\ sync_pc' = "save"
        /\ (sync_pc = "save" /\ ResolutionRaised) =>
            /\ index_version' = index_version
            /\ \/ /\ saved_version' = index_version
                  /\ index_result' = index_result
                  /\ sync_pc' = "return"
               \/ /\ sync_pc' = "idle"
                  /\ returned' = IndexFailed("save error")
        /\ (sync_pc = "return" /\ ResolutionRaised) =>
            /\ sync_pc' = "idle"
            /\ returned'.status = "completed"
            /\ returned'.entity_resolution = ResolutionFailed("resolution error")
            /\ saved_version' = index_version
        /\ returned'.status = "failed" =>
            returned'.error \in {"index error", "save error"}
      ]_vars

C17_Witness ==
    /\ sync_pc = "idle"
    /\ returned.status = "completed"
    /\ returned.entity_resolution.status = "failed"
    /\ index_version >= 1
    /\ saved_version = index_version

(***************************************************************************)
(* C18: with entities.parquet or relationships.parquet missing,            *)
(* resolve_entities returns status skipped at once: the summary is the     *)
(* only effect, no file of the output directory is created, modified or    *)
(* backed up, and the run is over.                                         *)
(***************************************************************************)
InputMissing == ~entities_file.exists \/ ~relationships_file.exists

C18_SkipOnMissingInput ==
    [][ (pc = "idle" /\ InputMissing) =>
            /\ results' = Append(results, Skipped)
            /\ entities_file' = entities_file
            /\ relationships_file' = relationships_file
            /\ entities_bak' = entities_bak
            /\ relationships_bak' = relationships_bak
            /\ ~entities_bak'.exists /\ ~relationships_bak'.exists
            /\ pc' = "idle"
      ]_vars

C18_Witness ==
    /\ pc = "idle"
    /\ Len(results) >= 1
    /\ results[Len(results)].status = "skipped"
    /\ entities_file.exists /\ ~relationships_file.exists
    /\ ~entities_bak.exists /\ ~relationships_bak.exists

(***************************************************************************)
(* C19                                                                     *)
(***************************************************************************)
\* C19: short differing tokens are never fuzzy-merged.  In every pair the
\* fuzzy strategy proposes, each of the two differing tokens is longer than
\* three characters, whether their edit distance is 1 or 2.
C19_ShortTokensNeverFuzzyMerged ==
    \A i \in DOMAIN acc.merge_pairs :
        acc.reasons[i] = "ocr-fuzzy" =>
            \A t \in OwnTokens(acc.merge_pairs[i][1], acc.merge_pairs[i][2])
                     \cup OwnTokens(acc.merge_pairs[i][2], acc.merge_pairs[i][1]) :
                Len(t) > ShortTokenLen

(***************************************************************************)
(* C20                                                                     *)
(***************************************************************************)
\* C20: role labels never merge.  Whatever strategy proposed it, no merge
\* pair has a keep side or a merge side whose name fails the proper-noun
\* check.
C20_RoleLabelsNeverMerge ==
    \A i \in DOMAIN acc.merge_pairs :
        /\ _is_proper_noun(RecOfId(acc.merge_pairs[i][1]).name)
        /\ _is_proper_noun(RecOfId(acc.merge_pairs[i][2]).name)

(***************************************************************************)
(* C21                                                                     *)
(***************************************************************************)
\* the ids a relationship row carries
EndpointIds(row) == {row.source_id, row.target_id}

\* C21: reference redirection leaves no dangling endpoint.  After
\* _apply_merges, in a relationship table with id columns, no row refers to
\* an entity that was in the table before resolution and has been removed:
\* every endpoint that is the id of an input entity is the id of an output
\* entity.
C21_NoDanglingEndpoint ==
    (BeforeOverwrite /\ HasIds(relationships_df.cols)) =>
        \A k \in DOMAIN relationships_df.rows :
            \A e \in EndpointIds(relationships_df.rows[k]) :
                e \in TableIds(entities_file.rows) => e \in TableIds(entities_df)

(***************************************************************************)
(* C22                                                                     *)
(***************************************************************************)
\* the description text of the row with this id
DescOfId(rows, id) == DescText(rows[IdxOf(rows, id)].description)

\* C22: description union without duplication.  After _apply_merges, for
\* every item (m -> k) of the merge map, a non-empty description of m is
\* part of the description of k in the output table; and when the
\* description of every entity merged into k is empty or already part of
\* the description k came with, the description of k is as it came.
C22_DescriptionUnion ==
    BeforeOverwrite =>
        \A i \in DOMAIN merge_map :
            LET m == merge_map[i][1]
                k == merge_map[i][2]
                before == entities_file.rows
            IN  /\ DescOfId(before, m) # "" =>
                    /\ HasId(entities_df, k)
                    /\ Contains(DescOfId(entities_df, k), DescOfId(before, m))
                /\ (/\ HasId(entities_df, k)
                    /\ \A j \in DOMAIN merge_map :
                          merge_map[j][2] = k =>
                              \/ DescOfId(before, merge_map[j][1]) = ""
                              \/ Contains(DescOfId(before, k),
                                          DescOfId(before, merge_map[j][1])))
                   => entities_df[IdxOf(entities_df, k)].description
                          = before[IdxOf(before, k)].description

(***************************************************************************)
(* C23                                                                     *)
(***************************************************************************)
\* the (source, target) pair of redirected row i, as the table carries it
RedirectedPair(i) == Endpoints(relationships_df.cols, RedirectedOnDisk[i])
OutputPair(k) == Endpoints(relationships_df.cols, relationships_df.rows[k])

\* C23: direction is preserved by the deduplication of relationships.  Two
\* redirected rows with endpoints (A, B) and (B, A), A # B, are not
\* duplicates of each other: the output holds a row for each of the two
\* ordered pairs, and a row that is the only one for its ordered pair is in
\* the output itself.
C23_DirectionPreserved ==
    BeforeOverwrite =>
        \A i, j \in DOMAIN RedirectedOnDisk :
            (/\ RedirectedPair(i)[1] # RedirectedPair(i)[2]
             /\ RedirectedPair(j) = <<RedirectedPair(i)[2], RedirectedPair(i)[1]>>)
            => /\ \E k \in DOMAIN relationships_df.rows :
                      OutputPair(k) = RedirectedPair(i)
               /\ (\A l \in DOMAIN RedirectedOnDisk :
                       RedirectedPair(l) = RedirectedPair(i) => l = i)
                  => \E k \in DOMAIN relationships_df.rows :
                         relationships_df.rows[k] = RedirectedOnDisk[i]

\* the output of a run that merged holds a pair of rows in opposite directions
C23_Witness ==
    /\ BeforeOverwrite
    /\ HasNames(relationships_df.cols)
    /\ Len(relationships_file.rows) > Len(relationships_df.rows)
    /\ \E k, l \in DOMAIN relationships_df.rows :
          /\ OutputPair(k)[1] # OutputPair(k)[2]
          /\ OutputPair(l) = <<OutputPair(k)[2], OutputPair(k)[1]>>

(***************************************************************************)
(* C24                                                                     *)
(***************************************************************************)
\* every row of the table after is a row of the table before with, at most,
\* another description, and then it is a canonical of the merge map
IdentityKept(before, after, m) ==
    \A k \in DOMAIN after :
        /\ HasId(before, after[k].id)
        /\ LET orig == before[IdxOf(before, after[k].id)]
           IN  /\ after[k].title = orig.title
               /\ after[k].type = orig.type
               /\ after[k].degree = orig.degree
               /\ after[k].description # orig.description
                      => after[k].id \in MapValues(m)

\* C24: surviving entity rows keep their identity fields.  Every entity
\* that remains after resolution has the id, display name, type and degree
\* it came with, in memory and in the file written; only its description
\* may differ, and only if it is the canonical of a merge.
C24_IdentityFieldsKept ==
    /\ BeforeOverwrite => IdentityKept(entities_file.rows, entities_df, merge_map)
    /\ pc \in {"write_relationships", "return"} =>
          /\ entities_file.rows = entities_df
          /\ IdentityKept(entities_bak.rows, entities_file.rows, merge_map)

\* the file written holds a canonical with a longer description whose
\* display name is not its matching name
C24_Witness ==
    /\ pc = "return"
    /\ \E k \in DOMAIN entities_file.rows :
          LET row == entities_file.rows[k]
              orig == entities_bak.rows[IdxOf(entities_bak.rows, row.id)]
          IN  /\ row.description # orig.description
              /\ row.title # _apply_known_aliases(row.title)
              /\ row.degree = orig.degree

(***************************************************************************)
(* C25                                                                     *)
(***************************************************************************)
\* the sync tasks between start_task and complete_task or fail_task
RunningTasks == {t \in DOMAIN tasks : tasks[t] = "running"}

\* C25: the caller serializes resolution passes.  Whatever the interleaving
\* of POST /sync requests and background tasks, at most one sync task is
\* between start_task and complete_task or fail_task, so that no two runs
\* of sync_and_index overlap.
C25_SyncTasksSerialized == Cardinality(RunningTasks) <= 1

(***************************************************************************)
(* C26                                                                     *)
(***************************************************************************)
\* following m from id leaves the keys of m within fuel lookups
RECURSIVE ChainEnds(_, _, _)
ChainEnds(m, id, fuel) ==
    \/ id \notin MapKeys(m)
    \/ fuel > 0 /\ ChainEnds(m, MapGet(m, id), fuel - 1)

\* C26: termination of merge resolution.  For every pair of every list of
\* merge pairs, the loop that follows the merge map from the keep side to
\* the ultimate canonical id comes to an id that is not a key of the map:
\* a chain over the keys is no longer than the map.
C26_ChainFollowingEnds ==
    pc = "chase" => ChainEnds(merge_map, ultimate_keep, Len(merge_map))

(***************************************************************************)
(* C27                                                                     *)
(***************************************************************************)
\* C27: the reported merge count is the number of entities removed.  In
\* every summary with status completed, merges = entities_before -
\* entities_after.
C27_MergeCountIsRemovedCount ==
    \A i \in DOMAIN results :
        results[i].status = "completed" =>
            results[i].merges
                = results[i].entities_before - results[i].entities_after

(***************************************************************************)
(* C28                                                                     *)
(***************************************************************************)
\* C28: a run with no merge candidates writes nothing.  From the load to
\* the end of candidate generation no step touches a file, and when the
\* list of candidates is empty the run ends at once: both snapshot files
\* and both .bak files are as they were, and the summary is completed with
\* the counts of the files before and after and merges = 0.
C28_NoCandidatesNoWrite ==
    [][ /\ pc \in {"idle", "find", "strategy1", "strategy2", "strategy2b",
                   "strategy3", "strategy3b", "strategy4", "found"} =>
              UNCHANGED files
        /\ (pc = "found" /\ acc.merge_pairs = <<>>) =>
              /\ pc' = "idle"
              /\ results' = Append(results,
                    Completed(Len(entities_file.rows), Len(entities_file.rows),
                              Len(relationships_file.rows),
                              Len(relationships_file.rows), 0))
      ]_vars

\* the first run on two rows found nothing to merge and left no .bak file
C28_Witness ==
    /\ pc = "idle"
    /\ runs = 1
    /\ Len(results) = 1
    /\ results[1].status = "completed"
    /\ results[1].merges = 0
    /\ results[1].entities_after >= 2
    /\ Len(entities_file.rows) = results[1].entities_before
    /\ ~entities_bak.exists /\ ~relationships_bak.exists

(***************************************************************************)
(* C29                                                                     *)
(***************************************************************************)
\* the entity with this id took no part in a merge
Unmerged(id) ==
    /\ HasId(entities_file.rows, id)
    /\ id \notin MapKeys(merge_map) \cup MapValues(merge_map)

\* C29: relationships of unmerged entities are not redirected.  After
\* _apply_merges, in a table with id and name columns, an endpoint whose id
\* is that of an entity that took no part in a merge, an entity of another
\* type in particular, carries the display name of that entity, also when a
\* merged person has the same display name.
C29_UnmergedEndpointsKeepNames ==
    (BeforeOverwrite /\ HasIds(relationships_df.cols)
                     /\ HasNames(relationships_df.cols)) =>
        \A k \in DOMAIN relationships_df.rows :
            LET row == relationships_df.rows[k]
            IN  /\ Unmerged(row.source_id) =>
                      row.source = NameOfId(entities_file.rows, row.source_id)
                /\ Unmerged(row.target_id) =>
                      row.target = NameOfId(entities_file.rows, row.target_id)

(***************************************************************************)
(* C30                                                                     *)
(***************************************************************************)
\* the Levenshtein distance by its defining recurrence: the least number of
\* insertions, deletions and substitutions of one character that turn a
\* into b
RECURSIVE EditDistance(_, _)
EditDistance(a, b) ==
    IF Len(a) = 0 THEN Len(b)
    ELSE IF Len(b) = 0 THEN Len(a)
    ELSE LET delete == EditDistance(Tail(a), b) + 1
             insert == EditDistance(a, Tail(b)) + 1
             change == EditDistance(Tail(a), Tail(b))
                           + (IF Head(a) = Head(b) THEN 0 ELSE 1)
         IN  IF delete <= insert /\ delete <= change THEN delete
             ELSE IF insert <= change THEN insert ELSE change

\* C30: _levenshtein(a, b) is the Levenshtein edit distance of a and b, for
\* all strings of the bounded length over the alphabet; it is the same for
\* (b, a), and it is 0 exactly when a = b.
C30_LevenshteinIsEditDistance ==
    lev_out # -1 =>
        /\ lev_out = EditDistance(lev_a, lev_b)
        /\ lev_out = _levenshtein(lev_b, lev_a)
        /\ lev_out = 0 <=> lev_a = lev_b

\* a call with the shorter string first that needed a substitution and an
\* insertion
C30_Witness ==
    /\ lev_out = 2
    /\ Len(lev_a) = 2
    /\ Len(lev_b) = 3
    /\ IndelDistance(lev_a, lev_b) > 2

====
